---- MODULE Spec2Model ----
(***************************************************************************)
(* Model of the self-healing repair loop: CodingAgentApp.run,              *)
(* CodingAgentFixRunner.run_all_attempts (src/src/agents/coding_agent.py), *)
(* CodingAgentRunner.run_all_attempts (src/src/lib/coding_agent_runner.py),*)
(* SubprocessExecutor.run (src/src/utils/cypress_executor.py) and          *)
(* ConversationFormatter.save (src/src/utils/conversation_formatter.py).   *)
(*                                                                         *)
(* Texts (the upstream code-blocks content, the output of a test run) are  *)
(* modelled as slices [src, lo, hi) of a named source text: src = 0 is the *)
(* upstream content, src = k > 0 is the output returned by the k-th        *)
(* invocation of the test adapter.  Slicing is computed on the offsets, so *)
(* the real limits (15000, 10000, 5000) are kept.                          *)
(*                                                                         *)
(* The agent session (ClaudeSDKClient) and the test subprocess are the     *)
(* environment: a query may raise, a response stream is one of Streams and *)
(* may raise while being read, a subprocess exits with a code, times out,  *)
(* cannot be launched, or is interrupted.  Closing the session and writing *)
(* the transcript file are taken to succeed.                               *)
(*                                                                         *)
(* The upstream stage is modelled by SpecExtract: WebAgentTestRunner.run   *)
(* (src/src/agents/web_agent.py) collects the blocks of the response and   *)
(* saves them with ConversationFormatter.format_conversation, and the      *)
(* operations of PlaywrightCodeExtractor                                   *)
(* (src/src/utils/playwright_extractor.py) are applied to the document.    *)
(* A document is a sequence of lines; each line keeps what the extractor's *)
(* patterns can tell apart (heading, fence, JSON text, code) and the       *)
(* invocation its content comes from.                                      *)
(***************************************************************************)
EXTENDS Integers, Sequences, FiniteSets, TLC

\* ------------------------------------------------------------------ bounds

\* Largest max_retries explored (the default of the program is MAX_RETRIES).
MaxRetriesBound == 3

\* ------------------------------------------------------- program constants

MAX_RETRIES == 3
SnippetLimit == 15000
RetrySnippetLimit == 10000
TranscriptOutputLimit == 5000

\* ------------------------------------------------------------------- texts

Str(src, lo, hi) == [src |-> src, lo |-> lo, hi |-> hi]
StrLen(s) == s.hi - s.lo
EmptyStr == Str(0, 0, 0)

\* s[-n:] if len(s) > n else s
LastChars(s, n) == IF StrLen(s) > n THEN [s EXCEPT !.lo = s.hi - n] ELSE s

\* s[:n]
FirstChars(s, n) == IF StrLen(s) > n THEN [s EXCEPT !.hi = s.lo + n] ELSE s

\* Lengths of the upstream code-blocks content the run may be given.
ContentLens == {15000, 15001}

\* Lengths of the output a test run may return.
OutputLens == {5000, 10001}

\* --------------------------------------------------------------- variables

VARIABLES
    variant,               \* which orchestrator runs: "FixRunner" | "Runner"
    max_retries,           \* the max_retries argument
    code_blocks,           \* the upstream file: [exists, content]
    conversation_snippet,  \* self.conversation_snippet
    initial_prompt,        \* initial_prompt of run_all_attempts
    pc,                    \* position of the run
    attempt,               \* the loop variable
    session,               \* "unopened" | "open" | "closed"
    sessions_opened,       \* how many ClaudeSDKClient sessions the run has opened
    user_prompt,           \* user_prompt of the current iteration
    stream,                \* messages the session has still to deliver
    messages,              \* messages of the current iteration
    conversation_history,  \* conversation_history of run_all_attempts
    queries,               \* every call of client.query, in order, with the
                           \* response the session answers it with
    test_log,              \* every call of cypress_executor.run, in order, with
                           \* how its subprocess ended
    outcome,               \* how the loop ended: "none" | "Succeeded" | "Exhausted"
    exc,                   \* the exception in flight, "none" when there is none
    returned,              \* what run_all_attempts returned: [has, value]
    transcript             \* coding_agent_conversation.md: [exists, doc]

\* The upstream stage: the web agent's run and the extraction of facts from
\* the transcript it saved.
VARIABLES
    web_pc,                \* "Idle" | "Collecting" | "Saved" | "Edited"
    web_messages,          \* blocks of the messages _collect_messages gathered
    conversation_file,     \* conversation.md: [exists, lines]
    extracted              \* outcome of the last extractor operation

webvars == <<web_pc, web_messages, conversation_file, extracted>>

\* One run of the test adapter looked at character by character.
VARIABLES
    aria_pc,               \* "Idle" | "Running" | "Exited" | "Returned"
    raw_output,            \* result.stdout + result.stderr, as tokens
    returncode,            \* result.returncode
    run_result             \* what SubprocessExecutor.run returned: [success, output]

ariavars == <<aria_pc, raw_output, returncode, run_result>>

\* The checklist file of the planning stage and its reader.
VARIABLES
    todo_pc,               \* "Idle" | "Planning" | "Written" | "Selected"
    todo_file,             \* the lines of todo_<task_id>.md
    current_step           \* the id of the line selected, 0: none

todovars == <<todo_pc, todo_file, current_step>>

\* One call of BaseAgent.retry_model.
VARIABLES
    retry_pc,              \* "Idle" | "Calling" | "Except" | "Done"
    request,               \* the ModelRequest
    retry_attempt,         \* attempt, the variable of the for loop
    handler_calls,         \* how each call of handler(request) ended
    waited,                \* seconds slept between calls
    retry_outcome          \* how retry_model ended

retryvars == <<retry_pc, request, retry_attempt, handler_calls, waited,
               retry_outcome>>

\* One run of SelfHealingPipeline.run, stage by stage.
VARIABLES
    pipe_pc,               \* where run is
    run_uuid,              \* self.run_uuid
    results_dir,           \* the files of self_healing/results
    web_session,           \* the agent session of Stage 1
    pipe_exc,              \* the exception that left run: [stage, type]
    pipe_log,              \* what has been done, in order
    stage2_read,           \* the file Stage 2 read
    repair_attempts        \* attempts of the repair loop made

pipevars == <<pipe_pc, run_uuid, results_dir, web_session, pipe_exc, pipe_log,
              stage2_read, repair_attempts>>

\* What the steps of the repair loop leave alone.
offloop == <<webvars, ariavars, todovars, retryvars, pipevars>>

vars == <<offloop, variant, max_retries, code_blocks, conversation_snippet,
          initial_prompt, pc, attempt, session, sessions_opened, user_prompt,
          stream, messages, conversation_history, queries, test_log, outcome,
          exc, returned, transcript>>

\* ------------------------------------------------------------ environment

Variants == {"FixRunner", "Runner"}

test_file_path == "cypress/e2e/login.cy.js"

TextBlock == [kind |-> "text", id |-> 0]
ToolUseBlock(i) == [kind |-> "tool_use", id |-> i, name |-> "Edit"]
ToolResultBlock(i) == [kind |-> "tool_result", id |-> i]

\* The response streams a query may be answered with (finite, not restartable).
Streams ==
    { <<>>,
      <<ToolUseBlock(1)>>,
      <<TextBlock, ToolUseBlock(1), ToolResultBlock(1)>>,
      <<ToolResultBlock(2)>> }

\* What may go wrong inside the session while it is awaited.
SessionExceptions == {"SessionError", "KeyboardInterrupt"}

\* How the subprocess of one test run may end.
ProcOutcomes ==
    [kind : {"exit"}, returncode : {0, 1}, len : OutputLens]
    \cup [kind : {"timeout", "oserror", "interrupt"}, returncode : {0}, len : {0}]

NoResult == [present |-> FALSE, success |-> FALSE, output |-> EmptyStr]
NotReturned == [has |-> FALSE, value |-> <<>>]
NoTranscript == [exists |-> FALSE, doc |-> <<>>]
NoPrompt ==
    [kind |-> "none", path |-> "", names |-> 0, snippet |-> EmptyStr, text |-> ""]

\* ----------------------------------------------------------- pure helpers

\* CodingAgentFixRunner.__init__ / CodingAgentRunner.__init__
ConversationSnippet(conversation_content) ==
    LastChars(conversation_content, SnippetLimit)

\* prompt_loader.format_prompt("coding_agent", prompt_key="user_prompt", ...)
InitialPrompt(path, snippet) ==
    [kind |-> "initial", path |-> path, names |-> 0, snippet |-> snippet,
     text |-> "coding_agent.user_prompt"]

\* The text of the f-string of _build_retry_prompt around the attempt number
\* and the snippet.  CodingAgentRunner's is an instruction text in Chinese;
\* the source of CodingAgentFixRunner holds the bytes of that text decoded
\* with another encoding and stored again, which is another text.
RetryPromptText(v) ==
    IF v = "Runner" THEN "instructions" ELSE "instructions, garbled"

\* Variant that embeds the first characters of the output, not the last.
BuildRetryPromptHead(k, previous_test_output) ==
    [kind |-> "retry", path |-> "", names |-> k - 1,
     snippet |-> FirstChars(previous_test_output, RetrySnippetLimit),
     text |-> RetryPromptText(variant)]

\* _build_retry_prompt(attempt, previous_test_output)
BuildRetryPrompt(k, previous_test_output) ==
    [kind |-> "retry", path |-> "", names |-> k - 1,
     snippet |-> LastChars(previous_test_output, RetrySnippetLimit),
     text |-> RetryPromptText(variant)]

\* conversation_history[-1]
LastEntry(history) == history[Len(history)]

\* conversation_history[-1]["test_result"] can be read
PrevResultReadable(history) ==
    Len(history) > 0 /\ LastEntry(history).test_result.present

\* Variants of the loop range: range(1, max_retries) and range(1, max_retries + 2).
InRangeShort(k, n) == 1 <= k /\ k < n
InRangeLong(k, n) == 1 <= k /\ k < n + 2

\* attempt in range(1, max_retries + 1)
InRange(k, n) == 1 <= k /\ k < n + 1

\* f"Fix Attempt {attempt}"
StepLabel(k) == <<"Fix Attempt", k>>

\* tool_outputs[block.tool_use_id] = block.content, over the messages read
ToolOutputs(msgs) ==
    {msgs[i].id : i \in {j \in DOMAIN msgs : msgs[j].kind = "tool_result"}}

\* entry = {"step": ..., "user_prompt": ..., "messages": ..., "tool_outputs": ...}
Entry(k, prompt, msgs) ==
    [step |-> StepLabel(k), user_prompt |-> prompt, messages |-> msgs,
     tool_outputs |-> ToolOutputs(msgs), test_result |-> NoResult]

\* Variant that stops reading the response early.
ResponseAbandoned(s) == TRUE

\* async for message in client.receive_response(): the loop body is left
\* when the response has no message left.
ResponseExhausted(s) == s = <<>>

\* Variant of the loop without its break.
NeverBreaks(test_success) == FALSE

\* if test_success: break
LoopBreaks(test_success) == test_success

\* SubprocessExecutor.run: the value returned, or the exception raised, for a
\* subprocess ending as proc; run is the ordinal of the invocation.  The
\* result keeps how the subprocess ended (proc), for the log of the runs.
\* subprocess.run(..., timeout=600) raises TimeoutExpired, and run catches
\* nothing.
SubprocessExecutorRun(proc, run) ==
    CASE proc.kind = "timeout" ->
            [proc |-> proc.kind, raised |-> "TimeoutExpired", success |-> FALSE,
             output |-> EmptyStr]
      [] proc.kind = "oserror" ->
            [proc |-> proc.kind, raised |-> "OSError", success |-> FALSE,
             output |-> EmptyStr]
      [] proc.kind = "interrupt" ->
            [proc |-> proc.kind, raised |-> "KeyboardInterrupt", success |-> FALSE,
             output |-> EmptyStr]
      [] OTHER ->
            [proc |-> proc.kind, raised |-> "none",
             success |-> (proc.returncode = 0), output |-> Str(run, 0, proc.len)]

\* Variant whose default for an unresolved id is the empty name.
NameOrEmpty(before, id) ==
    IF \E j \in 1..Len(before) : before[j].kind = "tool_use" /\ before[j].id = id
    THEN LET j == CHOOSE j \in 1..Len(before) :
                     before[j].kind = "tool_use" /\ before[j].id = id
         IN before[j].name
    ELSE ""

\* tool_use_map lookup of the formatter: the name of the tool use with this
\* id rendered so far, "Unknown" when there is none.
ToolNameOf(before, id) ==
    IF \E j \in 1..Len(before) : before[j].kind = "tool_use" /\ before[j].id = id
    THEN LET j == CHOOSE j \in 1..Len(before) :
                     before[j].kind = "tool_use" /\ before[j].id = id
         IN before[j].name
    ELSE "Unknown"

\* The tool name the runner prints for the tool result at turn i of the
\* messages it has read.
ReportedToolName(msgs, i) == ToolNameOf(SubSeq(msgs, 1, i - 1), msgs[i].id)

\* "**Output (<name>):**" of every turn that is a tool result ("" for the
\* other turns).
OutputLabels(msgs) ==
    [i \in 1..Len(msgs) |->
        IF msgs[i].kind = "tool_result"
        THEN ToolNameOf(SubSeq(msgs, 1, i - 1), msgs[i].id)
        ELSE ""]

\* ConversationFormatter.format_conversation, include_test_results = True:
\* one section per record.
RenderEntry(entry) ==
    [heading |-> entry.step,
     prompt |-> entry.user_prompt,
     has_result |-> entry.test_result.present,
     success |-> entry.test_result.success,
     shown |-> FirstChars(entry.test_result.output, TranscriptOutputLimit),
     truncated |-> StrLen(entry.test_result.output) > TranscriptOutputLimit,
     turns |-> entry.messages,
     outputs |-> OutputLabels(entry.messages)]

\* Variant that renders only the records whose test passed.
FormatPassedOnly(history) ==
    LET last == IF Len(history) > 0 /\ LastEntry(history).test_result.success
                THEN Len(history) ELSE 0
    IN [i \in 1..(IF last = 0 THEN 0 ELSE 1) |-> RenderEntry(history[last])]

\* for idx, entry in enumerate(conversation_history, 1): ...
FormatConversation(history) ==
    [i \in 1..Len(history) |-> RenderEntry(history[i])]

\* Variant that closes the session by a call after the loop, which an
\* exception skips.
ClosedUnlessRaised(via) == IF via = "Raised" THEN "open" ELSE "closed"

\* async with ClaudeSDKClient(...) as client: the session after the block is
\* left, normally (via = "LoopExit") or by an exception (via = "Raised").
SessionAfterBlock(via) == "closed"

\* Variant with the async with block inside the for loop: a session per attempt.
SessionPerAttempt(opened) == opened + 1

\* The for loop runs inside the async with block: the next attempt uses the
\* session that is open, and none is opened for it.
SessionOfNextAttempt(opened) == opened

\* Variant that attaches the test result to the first record.
FirstRecord(history) == 1

\* conversation_history[-1]["test_result"] = ...: the record that is written
ResultRecord(history) == Len(history)

\* Variant that catches the session's exception and tries the attempt again.
RetryAfterSessionRaises == "AwaitingPrompt"

\* No except clause surrounds client.query / client.receive_response.
AfterSessionRaises == "Raised"

\* The hint CodingAgentApp gives its file loader.
CodeBlocksHint == "Please run test_web_agent.py first to generate code_blocks.txt"

\* The file is read without the existence check: a missing file reads as
\* empty.
ReadWithoutCheck(file) ==
    [raised |-> "none", hint |-> "", content |-> file.content]

\* TextFileLoader.read
TextFileLoaderRead(file) ==
    IF ~file.exists
    THEN [raised |-> "FileNotFoundError", hint |-> CodeBlocksHint,
          content |-> EmptyStr]
    ELSE [raised |-> "none", hint |-> "", content |-> file.content]

\* ------------------------------------------- web agent transcript: values

\* Largest number of content blocks the web agent's response is explored to.
MaxBlocks == 4

\* A JSON text and what json.loads makes of it: ok = it parses; shape is the
\* type of the parsed value; todos_kind / todos describe its "todos" member;
\* of names the tool invocation whose input it is (0: none).
Json(ok, shape, todos_kind, todos, of) ==
    [ok |-> ok, shape |-> shape, todos_kind |-> todos_kind, todos |-> todos,
     of |-> of]
NoJson == Json(FALSE, "none", "absent", <<>>, 0)
JsonObject(of) == Json(TRUE, "object", "absent", <<>>, of)
JsonTodos(of, todos) == Json(TRUE, "object", "list", todos, of)
JsonTodosObject(of) == Json(TRUE, "object", "object", <<>>, of)
JsonArray(of) == Json(TRUE, "array", "absent", <<>>, of)
JsonGarbage(of) == Json(FALSE, "none", "absent", <<>>, of)

\* One item of a checklist snapshot.
TodoItem(of, n) == [snapshot |-> of, index |-> n]

ToolNames == {"browser_click", "TodoWrite"}

\* The inputs the agent may pass to a tool (ToolUseBlock.input is a dict).
ToolInputs(name, id) ==
    IF name = "TodoWrite"
    THEN {JsonTodos(id, <<>>), JsonTodos(id, <<TodoItem(id, 1), TodoItem(id, 2)>>)}
    ELSE {JsonObject(id)}

\* The content of a tool result: a text item that reports the Playwright code
\* that ran ("playwright"), or a text item that does not ("plain"); only a
\* browser tool runs Playwright code.
ResultContents(name) ==
    IF name = "TodoWrite" THEN {"plain"} ELSE {"playwright", "plain"}

\* Content blocks of the web agent's messages (AssistantMessage: TextBlock,
\* ToolUseBlock; UserMessage: ToolResultBlock).  A text block and a tool use
\* are identified by their position in the response.
WebText(id) ==
    [kind |-> "text", id |-> id, name |-> "", input |-> NoJson,
     content |-> "none"]
WebToolUse(id, name, input) ==
    [kind |-> "tool_use", id |-> id, name |-> name, input |-> input,
     content |-> "none"]
WebToolResult(tool_use_id, content) ==
    [kind |-> "tool_result", id |-> tool_use_id, name |-> "",
     input |-> NoJson, content |-> content]

\* Tool uses of the response that no result has answered yet.
Unanswered(blocks) ==
    {i \in 1..Len(blocks) :
        /\ blocks[i].kind = "tool_use"
        /\ \A j \in 1..Len(blocks) :
              ~(blocks[j].kind = "tool_result" /\ blocks[j].id = blocks[i].id)}

\* ------------------------------------------- web agent transcript: lines

\* A document is a sequence of lines.  k is what the line reads as: "tool" is
\* "#### Tool: <name>", "input" is "**Input:**", "output" is
\* "**Output (<name>):**", "fence" is "```", "fence_json" is "```json",
\* "fence_js" is "```js", "h_ran" is "### Ran Playwright code", "h_response"
\* is "### Claude's Response", "json" is a JSON text, "code" is the Playwright
\* code of result id, "text" is the text of block id; "fence_tail" is what
\* follows the back-ticks on a fence line.
Line(k, name, id, val) == [k |-> k, name |-> name, id |-> id, val |-> val]
Mk(k) == Line(k, "", 0, NoJson)
Blank == Mk("blank")

\* A line that begins with three back-ticks.
IsFence(l) == l.k \in {"fence", "fence_json", "fence_js"}

\* format_conversation: the lines of one content block.
RenderBlock(b, before) ==
    CASE b.kind = "text" ->
            <<Line("text", "", b.id, NoJson), Blank>>
      [] b.kind = "tool_use" ->
            <<Line("tool", b.name, b.id, NoJson), Blank, Mk("input"), Blank,
              Mk("fence_json"), Line("json", "", b.id, b.input), Mk("fence"),
              Blank>>
      [] b.kind = "tool_result" ->
            <<Line("output", ToolNameOf(before, b.id), b.id, NoJson), Blank,
              Mk("fence")>>
            \o (IF b.content = "playwright"
                THEN <<Mk("h_ran"), Mk("fence_js"),
                       Line("code", "", b.id, NoJson), Mk("fence"), Blank,
                       Line("page_state", "", b.id, NoJson)>>
                ELSE <<Line("result_text", "", b.id, NoJson)>>)
            \o <<Mk("fence"), Blank>>

RECURSIVE RenderBlocks(_, _)
RenderBlocks(blocks, n) ==
    IF n = 0 THEN <<>>
    ELSE RenderBlocks(blocks, n - 1)
         \o RenderBlock(blocks[n], SubSeq(blocks, 1, n - 1))

\* format_conversation: the "Tool Outputs Summary" of an entry, one item per
\* key of tool_outputs in insertion order; json.dumps keeps each output on
\* lines of an array, so no line of it reads as a heading or a fence.
RECURSIVE RenderSummary(_, _)
RenderSummary(blocks, n) ==
    IF n = 0 THEN <<>>
    ELSE RenderSummary(blocks, n - 1)
         \o (IF blocks[n].kind = "tool_result"
             THEN <<Line("summary_item", ToolNameOf(blocks, blocks[n].id),
                         blocks[n].id, NoJson),
                    Blank, Mk("fence_json"),
                    Line("json", "", 0, JsonArray(0)), Mk("fence"), Blank>>
             ELSE <<>>)

HasToolOutputs(blocks) ==
    \E i \in 1..Len(blocks) : blocks[i].kind = "tool_result"

\* ConversationFormatter.format_conversation of the single entry the web
\* agent records (include_test_results = False): the lines of the document.
RenderMarkdown(blocks, show_tool_summary) ==
    <<Mk("title"), Blank, Mk("generated"), Mk("test_file"), Blank, Mk("rule"),
      Blank, Mk("step"), Blank, Mk("h_prompt"), Blank, Mk("fence"),
      Mk("prompt"), Mk("fence"), Blank, Mk("h_response"), Blank>>
    \o RenderBlocks(blocks, Len(blocks))
    \o (IF show_tool_summary /\ HasToolOutputs(blocks)
        THEN <<Mk("h_summary"), Blank>> \o RenderSummary(blocks, Len(blocks))
        ELSE <<>>)
    \o <<Mk("rule"), Blank>>

\* ------------------------------------------------ transcript extraction

\* The indices of a set in increasing order.
RECURSIVE Ascending(_)
Ascending(S) ==
    IF S = {} THEN <<>>
    ELSE LET m == CHOOSE x \in S : \A y \in S : x <= y
         IN <<m>> \o Ascending(S \ {m})

\* str.strip() on whole lines: leading and trailing blank lines go.
RECURSIVE Strip(_)
Strip(lines) ==
    IF lines = <<>> THEN <<>>
    ELSE IF Head(lines).k = "blank" THEN Strip(Tail(lines))
    ELSE IF lines[Len(lines)].k = "blank"
         THEN Strip(SubSeq(lines, 1, Len(lines) - 1))
    ELSE lines

\* The first line at or after index from that begins with back-ticks, 0 when
\* there is none.
NextFence(lines, from) ==
    LET F == {m \in 1..Len(lines) : m >= from /\ IsFence(lines[m])}
    IN IF F = {} THEN 0 ELSE CHOOSE m \in F : \A x \in F : m <= x

\* json.loads of the text of some lines.
JsonLoads(lines) ==
    LET s == Strip(lines)
    IN IF Len(s) = 1 /\ s[1].k = "json" /\ s[1].val.ok
       THEN [raised |-> "none", val |-> s[1].val]
       ELSE [raised |-> "JSONDecodeError", val |-> NoJson]

\* re.finditer(r"#### Tool:", text)
ToolPositions(lines) ==
    Ascending({i \in 1..Len(lines) : lines[i].k = "tool"})

\* re.search(r"\*\*Input:\*\*\n\n```json\n(.*?)\n```", section, re.DOTALL):
\* the captured lines of the leftmost match.
InputMatch(section) ==
    LET M == {i \in 1..Len(section) :
                 /\ i + 2 <= Len(section)
                 /\ section[i].k = "input"
                 /\ section[i + 1].k = "blank"
                 /\ section[i + 2].k = "fence_json"
                 /\ NextFence(section, i + 4) # 0}
    IN IF M = {} THEN [found |-> FALSE, group |-> <<>>]
       ELSE LET i == CHOOSE i \in M : \A x \in M : i <= x
            IN [found |-> TRUE,
                group |-> SubSeq(section, i + 3, NextFence(section, i + 4) - 1)]

\* re.search(r"### Ran Playwright code\n```js\n(.*?)\n```", section, re.DOTALL)
PlaywrightMatch(section) ==
    LET M == {i \in 1..Len(section) :
                 /\ i + 1 <= Len(section)
                 /\ section[i].k = "h_ran"
                 /\ section[i + 1].k = "fence_js"
                 /\ NextFence(section, i + 3) # 0}
    IN IF M = {} THEN [found |-> FALSE, group |-> <<>>]
       ELSE LET i == CHOOSE i \in M : \A x \in M : i <= x
            IN [found |-> TRUE,
                group |-> SubSeq(section, i + 2, NextFence(section, i + 3) - 1)]

\* The text after the first three characters of a fence line.
FenceTail(l) ==
    IF l.k = "fence" THEN <<>>
    ELSE <<Line("fence_tail", IF l.k = "fence_json" THEN "json" ELSE "js", 0,
                NoJson)>>

\* text_before.rfind("```") and what follows it, stripped ("" when no line of
\* text_before begins with back-ticks).
AfterLastFence(text_before) ==
    LET F == {m \in 1..Len(text_before) : IsFence(text_before[m])}
    IN IF F = {} THEN <<>>
       ELSE LET m == CHOOSE m \in F : \A x \in F : x <= m
            IN Strip(FenceTail(text_before[m])
                     \o SubSeq(text_before, m + 1, Len(text_before)))

\* re.search(r"### Claude's Response\n\n(.*?)\n#### Tool:", head, re.DOTALL)
\* on head = text[:pos], stripped.
ResponseMatch(head) ==
    LET M == {r \in 1..Len(head) :
                 /\ r + 1 <= Len(head)
                 /\ head[r].k = "h_response"
                 /\ head[r + 1].k = "blank"
                 /\ \E t \in (r + 2)..Len(head) : head[t].k = "tool"}
    IN IF M = {} THEN <<>>
       ELSE LET r == CHOOSE r \in M : \A x \in M : r <= x
                t == CHOOSE t \in (r + 2)..Len(head) :
                        /\ head[t].k = "tool"
                        /\ \A u \in (r + 2)..(t - 1) : head[u].k # "tool"
            IN Strip(SubSeq(head, r + 2, t - 1))

\* The description of section i of extract_tool_calls.
Description(lines, positions, i) ==
    IF i > 1
    THEN AfterLastFence(SubSeq(lines, positions[i - 1], positions[i] - 1))
    ELSE ResponseMatch(SubSeq(lines, 1, positions[i] - 1))

\* text[pos:section_end] of extract_tool_calls.
ToolSection(lines, positions, i) ==
    SubSeq(lines, positions[i],
           IF i + 1 <= Len(positions) THEN positions[i + 1] - 1 ELSE Len(lines))

\* One iteration of the loop of extract_tool_calls: the records section i
\* adds to tool_calls.
SectionCalls(lines, positions, i) ==
    LET section == ToolSection(lines, positions, i)
        input_match == InputMatch(section)
        playwright_match == PlaywrightMatch(section)
    IN IF ~input_match.found \/ ~playwright_match.found THEN <<>>
       ELSE LET input_data == JsonLoads(input_match.group)
            IN IF input_data.raised # "none" THEN <<>>
               ELSE <<[tool_name |-> section[1].name,
                       input_data |-> input_data.val,
                       playwright_code |-> Strip(playwright_match.group),
                       description |-> Description(lines, positions, i)]>>

\* The scan ends at the first section whose input does not parse.
RECURSIVE CallsBeforeBadInput(_, _, _)
CallsBeforeBadInput(lines, positions, n) ==
    IF n = 0 THEN <<>>
    ELSE IF \E i \in 1..(n - 1) :
               LET section == ToolSection(lines, positions, i)
               IN /\ InputMatch(section).found
                  /\ PlaywrightMatch(section).found
                  /\ JsonLoads(InputMatch(section).group).raised # "none"
         THEN CallsBeforeBadInput(lines, positions, n - 1)
    ELSE CallsBeforeBadInput(lines, positions, n - 1)
         \o SectionCalls(lines, positions, n)

RECURSIVE ToolCallsUpTo(_, _, _)
ToolCallsUpTo(lines, positions, n) ==
    IF n = 0 THEN <<>>
    ELSE ToolCallsUpTo(lines, positions, n - 1)
         \o SectionCalls(lines, positions, n)

\* The document is read without the check.
PathAssumed(file) == TRUE

\* pathlib.Path.exists()
PathExists(file) == file.exists

NoCalls == <<>>
NoSnapshot == [present |-> FALSE, val |-> NoJson]
NoItem == [present |-> FALSE, item |-> TodoItem(0, 0)]
Outcome(op, raised, calls, snapshot, item) ==
    [op |-> op, raised |-> raised, calls |-> calls, snapshot |-> snapshot,
     item |-> item]
NotExtracted == Outcome("none", "none", NoCalls, NoSnapshot, NoItem)

\* PlaywrightCodeExtractor.extract_tool_calls
ExtractToolCalls(file) ==
    IF ~PathExists(file)
    THEN Outcome("extract_tool_calls", "FileNotFoundError", NoCalls,
                 NoSnapshot, NoItem)
    ELSE LET positions == ToolPositions(file.lines)
         IN Outcome("extract_tool_calls", "none",
                    ToolCallsUpTo(file.lines, positions, Len(positions)),
                    NoSnapshot, NoItem)

\* text.find in place of text.rfind.
FirstTodoPos(lines) ==
    LET T == {i \in 1..Len(lines) :
                 lines[i].k = "tool" /\ lines[i].name = "TodoWrite"}
    IN IF T = {} THEN 0 ELSE CHOOSE i \in T : \A x \in T : i <= x

\* text.rfind("#### Tool: TodoWrite"), 0 when there is none.
LastTodoPos(lines) ==
    LET T == {i \in 1..Len(lines) :
                 lines[i].k = "tool" /\ lines[i].name = "TodoWrite"}
    IN IF T = {} THEN 0 ELSE CHOOSE i \in T : \A x \in T : x <= i

\* The section always runs to the end of the text.
RestOfText(lines, last_todo_pos) ==
    SubSeq(lines, last_todo_pos, Len(lines))

\* The section of extract_last_todo_list: from the marker to the next
\* "#### Tool:" after it, or to the end of the text.
TodoSection(lines, last_todo_pos) ==
    LET N == {i \in 1..Len(lines) : i > last_todo_pos /\ lines[i].k = "tool"}
    IN IF N = {} THEN SubSeq(lines, last_todo_pos, Len(lines))
       ELSE SubSeq(lines, last_todo_pos,
                   (CHOOSE i \in N : \A x \in N : i <= x) - 1)

\* What extract_last_todo_list returns for a section: the JSON between the
\* first "```json" and the next back-ticks, absent when there is no such
\* block or it does not parse.
SectionSnapshot(section_text) ==
    LET J == {i \in 1..Len(section_text) : section_text[i].k = "fence_json"}
    IN IF J = {} THEN NoSnapshot
       ELSE LET json_start == CHOOSE i \in J : \A x \in J : i <= x
                json_end == NextFence(section_text, json_start + 1)
            IN IF json_end = 0 THEN NoSnapshot
               ELSE LET todo_data ==
                            JsonLoads(SubSeq(section_text, json_start + 1,
                                             json_end - 1))
                    IN IF todo_data.raised # "none" THEN NoSnapshot
                       ELSE [present |-> TRUE, val |-> todo_data.val]

\* PlaywrightCodeExtractor.extract_last_todo_list
ExtractLastTodoList(file) ==
    IF ~PathExists(file)
    THEN Outcome("extract_last_todo_list", "FileNotFoundError", NoCalls,
                 NoSnapshot, NoItem)
    ELSE LET last_todo_pos == LastTodoPos(file.lines)
         IN Outcome("extract_last_todo_list", "none", NoCalls,
                    IF last_todo_pos = 0 THEN NoSnapshot
                    ELSE SectionSnapshot(TodoSection(file.lines, last_todo_pos)),
                    NoItem)

\* full_todo_list and full_todo_list.get("todos"), then ["todos"][-1]: what
\* the expression of extract_last_todo does with the parsed value.
LastOfTodos(full_todo_list) ==
    IF ~full_todo_list.present THEN [raised |-> "none", result |-> NoItem]
    ELSE IF full_todo_list.val.shape # "object"
         THEN [raised |-> "AttributeError", result |-> NoItem]
    ELSE IF full_todo_list.val.todos_kind = "absent"
         THEN [raised |-> "none", result |-> NoItem]
    ELSE IF full_todo_list.val.todos_kind = "object"
         THEN [raised |-> "KeyError", result |-> NoItem]
    ELSE IF full_todo_list.val.todos = <<>>
         THEN [raised |-> "none", result |-> NoItem]
    ELSE [raised |-> "none",
          result |-> [present |-> TRUE,
                      item |-> full_todo_list.val.todos[
                                   Len(full_todo_list.val.todos)]]]

\* PlaywrightCodeExtractor.extract_last_todo
ExtractLastTodo(file) ==
    LET full_todo_list == ExtractLastTodoList(file)
    IN IF full_todo_list.raised # "none"
       THEN Outcome("extract_last_todo", full_todo_list.raised, NoCalls,
                    NoSnapshot, NoItem)
       ELSE LET last == LastOfTodos(full_todo_list.snapshot)
            IN Outcome("extract_last_todo", last.raised, NoCalls, NoSnapshot,
                       last.result)

NoDocument == [exists |-> FALSE, lines |-> <<>>]

\* The web agent stage has not run (the state of the stage while the repair
\* loop is explored).
WebIdle ==
    /\ web_pc = "Idle"
    /\ web_messages = <<>>
    /\ conversation_file = NoDocument
    /\ extracted = NotExtracted

\* ------------------------------------------- test output: the ARIA snapshot

\* Largest number of tokens the output of one test run is explored to.
MaxTokens == 6

\* aria_snapshot[-30000:] if len(aria_snapshot) > 30000
SnapshotLimit == 30000

\* separator = "=" * 80
SeparatorWidth == 80

\* The output of a test run is a sequence of tokens, each standing for the
\* characters it names: the marker "ARIA SNAPSHOT (Accessibility Tree)", a
\* line feed, a run of SeparatorWidth "=" characters, or n characters of
\* other text (no marker, no line feed, no "=", no white space).  The title
\* and the notice are the two fixed texts run adds.
MarkerTok == [t |-> "marker", n |-> 34]
NL == [t |-> "nl", n |-> 1]
Sep == [t |-> "sep", n |-> SeparatorWidth]
Txt(n) == [t |-> "txt", n |-> n]
TitleTok == [t |-> "title", n |-> 50]
NoticeTok == [t |-> "notice", n |-> 46]

\* What the subprocess may write.
OutputTokens == {MarkerTok, NL, Sep, Txt(1), Txt(SnapshotLimit)}

\* len(text)
RECURSIVE Chars(_)
Chars(toks) ==
    IF toks = <<>> THEN 0 ELSE Head(toks).n + Chars(Tail(toks))

\* output.find(t, from): the first position at or after from, 0 for -1.
FindTok(output, t, from) ==
    LET hits == {i \in from..Len(output) : output[i].t = t}
    IN  IF hits = {} THEN 0 ELSE CHOOSE i \in hits : \A j \in hits : i <= j

\* text.strip()
StripWs(toks) ==
    LET solid == {i \in 1..Len(toks) : toks[i].t # "nl"}
    IN  IF solid = {} THEN <<>>
        ELSE SubSeq(toks, CHOOSE i \in solid : \A j \in solid : i <= j,
                          CHOOSE i \in solid : \A j \in solid : i >= j)

\* text[-k:]: a token cut by the slice leaves its last characters, which are
\* text of the same kind for plain text and a fragment otherwise.
RECURSIVE LastOf(_, _)
LastOf(toks, k) ==
    IF toks = <<>> \/ k <= 0 THEN <<>>
    ELSE LET last == toks[Len(toks)]
             front == SubSeq(toks, 1, Len(toks) - 1)
         IN  IF last.n <= k THEN Append(LastOf(front, k - last.n), last)
             ELSE <<[t |-> IF last.t = "txt" THEN "txt" ELSE "frag", n |-> k]>>

NoSnapshotFound == [found |-> FALSE, snapshot |-> <<>>]

\* The while loop of _extract_aria_snapshot: skip the lines that start with
\* the separator; 0 when such a line has no line feed after it.
RECURSIVE SkipSeparatorLines(_, _)
SkipSeparatorLines(output, content_start) ==
    IF content_start <= Len(output) /\ output[content_start].t = "sep"
    THEN LET next_line == FindTok(output, "nl", content_start)
         IN  IF next_line = 0 THEN 0
             ELSE SkipSeparatorLines(output, next_line + 1)
    ELSE content_start

\* Variant that takes everything after the marker line, up to the end.
RestAfterMarker(output) ==
    LET start_idx == FindTok(output, "marker", 1)
        marker_line_end == FindTok(output, "nl", start_idx)
    IN  IF start_idx = 0 \/ marker_line_end = 0 THEN NoSnapshotFound
        ELSE [found |-> TRUE,
              snapshot |-> SubSeq(output, marker_line_end + 1, Len(output))]

\* SubprocessExecutor._extract_aria_snapshot: found = FALSE is None.
ExtractAriaSnapshot(output) ==
    LET start_idx == FindTok(output, "marker", 1)
    IN  IF start_idx = 0 THEN NoSnapshotFound
        ELSE
        LET marker_line_end == FindTok(output, "nl", start_idx)
        IN  IF marker_line_end = 0 THEN NoSnapshotFound
            ELSE
            LET content_start == SkipSeparatorLines(output, marker_line_end + 1)
            IN  IF content_start = 0 THEN NoSnapshotFound
                ELSE
                LET end_idx == FindTok(output, "sep", content_start)
                    snapshot ==
                        StripWs(SubSeq(output, content_start,
                                       IF end_idx = 0 THEN Len(output)
                                       ELSE end_idx - 1))
                IN  IF snapshot = <<>> THEN NoSnapshotFound
                    ELSE [found |-> TRUE, snapshot |-> snapshot]

\* Variant that shows the snapshot whole, whatever its length.
WholeSnapshot(aria_snapshot) == aria_snapshot

\* snapshot_display
SnapshotDisplay(aria_snapshot) ==
    IF Chars(aria_snapshot) > SnapshotLimit
    THEN LastOf(aria_snapshot, SnapshotLimit)
    ELSE aria_snapshot

\* Variant of the header without the separator lines.
PlainHeader == <<NL, NL, TitleTok, NL>>

\* "\n\n" + "=" * 80 + "\n" + title + "\n" + "=" * 80 + "\n"
SectionHeader == <<NL, NL, Sep, NL, TitleTok, NL, Sep, NL>>

\* "\n... (truncated, showing last 30000 characters)"
TruncationNotice == <<NL, NoticeTok>>

\* "\n" + "=" * 80 + "\n"
SectionFooter == <<NL, Sep, NL>>

\* What run appends to the output for the snapshot found.
AriaSection(aria_snapshot) ==
    SectionHeader \o SnapshotDisplay(aria_snapshot)
    \o (IF Chars(aria_snapshot) > SnapshotLimit THEN TruncationNotice ELSE <<>>)
    \o SectionFooter

\* Variant that appends the section to every failing run's output.
EnrichAlways(rc, raw) ==
    [success |-> rc = 0,
     output |-> IF rc # 0
                THEN raw \o AriaSection(ExtractAriaSnapshot(raw).snapshot)
                ELSE raw]

\* SubprocessExecutor.run from the completed subprocess on: success and the
\* output returned for return code rc and raw = stdout + stderr.
EnrichedRun(rc, raw) ==
    [success |-> rc = 0,
     output |-> IF rc # 0 /\ ExtractAriaSnapshot(raw).found
                THEN raw \o AriaSection(ExtractAriaSnapshot(raw).snapshot)
                ELSE raw]

NoRunResult == [success |-> FALSE, output |-> <<>>]

\* No test run is being looked at (the state of these variables while the
\* other stages are explored).
AriaIdle ==
    /\ aria_pc = "Idle"
    /\ raw_output = <<>>
    /\ returncode = 0
    /\ run_result = NoRunResult

\* ------------------------------------------------------------ the checklist

\* Largest number of todos the planning response is explored to.
MaxTodos == 3

\* Todo.status: "pending or done"; Todo.type: "api or ui".
TodoStatuses == {"pending", "done"}
TodoTypes == {"api", "ui"}

\* The line "[status] [id] (type) description" of one todo.
TodoLine(status, id, type) == [status |-> status, id |-> id, type |-> type]

\* The todos lists a planning response may hold, with ids in order.
RECURSIVE TodoLists(_)
TodoLists(n) ==
    IF n = 0 THEN {<<>>}
    ELSE TodoLists(n - 1)
         \cup {Append(l, TodoLine(st, Len(l) + 1, ty)) :
                  l \in {x \in TodoLists(n - 1) : Len(x) = n - 1},
                  st \in TodoStatuses, ty \in TodoTypes}

\* The first position of a set of positions, 0 when there is none.
FirstOf(positions) ==
    IF positions = {} THEN 0
    ELSE CHOOSE i \in positions : \A j \in positions : i <= j

\* Variant that takes the first pending line whatever precedes it.
FirstPendingOverall(lines) ==
    LET pending == {i \in 1..Len(lines) : lines[i].status = "pending"}
    IN  IF pending = {} THEN 0 ELSE lines[FirstOf(pending)].id

\* The current step read by the browser-automation stage: the first pending
\* line following a done line, else the first pending line overall; 0 when no
\* line is pending.
CurrentStep(lines) ==
    LET pending == {i \in 1..Len(lines) : lines[i].status = "pending"}
        after_done == {i \in pending :
                          \E j \in 1..(i - 1) : lines[j].status = "done"}
    IN  IF after_done # {} THEN lines[FirstOf(after_done)].id
        ELSE IF pending # {} THEN lines[FirstOf(pending)].id
        ELSE 0

\* No checklist is being looked at (the state of these variables while the
\* other stages are explored).
TodoIdle ==
    /\ todo_pc = "Idle"
    /\ todo_file = <<>>
    /\ current_step = 0

\* -------------------------------------------------------------- retry_model

\* for attempt in range(3)
RetryRange == 3

\* if attempt == 2
LastAttempt == 2

\* The requests retry_model may be called with.
Requests == {"request_a", "request_b"}

\* How a call of handler(request) may end: a response, an exception that
\* `except Exception` catches, or one it does not catch (CancelledError,
\* KeyboardInterrupt).  call is the ordinal of the call.
HandlerOutcomes(req, call) ==
    {[kind |-> "response", what |-> w, of |-> req, call |-> call] :
         w \in {"text", "tool_calls"}}
    \cup {[kind |-> "Exception", what |-> w, of |-> req, call |-> call] :
             w \in {"ValueError", "TimeoutError", "ConnectionError"}}
    \cup {[kind |-> "BaseException", what |-> "CancelledError", of |-> req,
           call |-> call]}

\* Variant in which no attempt is the last one.
NeverLast(a) == FALSE

\* if attempt == 2: raise
IsLastAttempt(a) == a = LastAttempt

\* Variant that sleeps 2^attempt seconds before the next call.
ExponentialBackoff(a) == 2 ^ a

\* The except clause sleeps for no time before the next call.
BackoffDelay(a) == 0

NoOutcome == [kind |-> "none"]

\* No model call is being looked at (the state of these variables while the
\* other stages are explored).
RetryIdle ==
    /\ retry_pc = "Idle"
    /\ request = "none"
    /\ retry_attempt = 0
    /\ handler_calls = <<>>
    /\ waited = 0
    /\ retry_outcome = NoOutcome

\* ------------------------------------------------------------ the pipeline

\* The values uuid.uuid4() may give.
RunIds == {"run_a", "run_b"}

\* results_dir / f"conversation_{run_uuid}.md"
ConversationPath(id) == [kind |-> "conversation", id |-> id]

\* results_dir / f"code_blocks_{run_uuid}.txt", as WebAgentApp writes it
CodeBlocksPath(id) == [kind |-> "code_blocks", id |-> id]

\* Variant that reads the newest code-blocks file whatever run wrote it.
AnyCodeBlocksPath(task_id) ==
    CodeBlocksPath(CHOOSE id \in RunIds : id # task_id)

\* .../"self_healing"/"results"/f"code_blocks_{task_id}.txt", as
\* CodingAgentApp reads it; the workspace is the current directory.
CodeBlocksPathRead(task_id) == CodeBlocksPath(task_id)

\* Variant that goes on to Stage 2 after Stage 1 raised.
Stage1RaiseCaught == "S1Extracted"

\* run has no try: an exception of web_agent.run() leaves run.
Stage1Raised == "Failed"

NoPipeExc == [stage |-> 0, type |-> "none"]
NoFile == [kind |-> "none", id |-> "none"]

\* No pipeline run is being looked at (the state of these variables while the
\* other stages are explored).
PipeIdle ==
    /\ pipe_pc = "Idle"
    /\ run_uuid = "none"
    /\ results_dir = {}
    /\ web_session = "unopened"
    /\ pipe_exc = NoPipeExc
    /\ pipe_log = <<>>
    /\ stage2_read = NoFile
    /\ repair_attempts = 0

\* ------------------------------------------------------------------- Init

Init ==
    /\ variant \in Variants
    /\ max_retries \in 0..MaxRetriesBound
    /\ code_blocks \in
          {[exists |-> TRUE, content |-> Str(0, 0, n)] : n \in ContentLens}
          \cup (IF variant = "FixRunner"
                THEN {[exists |-> FALSE, content |-> EmptyStr]} ELSE {})
    /\ conversation_snippet = EmptyStr
    /\ initial_prompt = NoPrompt
    /\ pc = "Start"
    /\ attempt = 0
    /\ session = "unopened"
    /\ sessions_opened = 0
    /\ user_prompt = NoPrompt
    /\ stream = <<>>
    /\ messages = <<>>
    /\ conversation_history = <<>>
    /\ queries = <<>>
    /\ test_log = <<>>
    /\ outcome = "none"
    /\ exc = "none"
    /\ returned = NotReturned
    /\ transcript = NoTranscript
    /\ WebIdle
    /\ AriaIdle
    /\ TodoIdle
    /\ RetryIdle
    /\ PipeIdle

\* ---------------------------------------------------------------- actions

\* CodingAgentApp.run: file_loader.read() and the runner's constructor.  The
\* Runner variant is constructed by its caller with the content in hand.
Construct ==
    /\ pc = "Start"
    /\ IF variant = "FixRunner" /\ TextFileLoaderRead(code_blocks).raised # "none"
       THEN /\ exc' = TextFileLoaderRead(code_blocks).raised
            /\ pc' = "Exited"
            /\ UNCHANGED conversation_snippet
       ELSE /\ conversation_snippet' = ConversationSnippet(code_blocks.content)
            /\ pc' = "Constructed"
            /\ UNCHANGED exc
    /\ UNCHANGED <<offloop, sessions_opened, variant, max_retries, code_blocks, initial_prompt, attempt,
                   session, user_prompt, stream, messages,
                   conversation_history, queries, test_log, outcome, returned,
                   transcript>>

\* async with ClaudeSDKClient(...) as client; initial_prompt; first test of
\* the for loop.
EnterSession ==
    /\ pc = "Constructed"
    /\ session' = "open"
    /\ sessions_opened' = sessions_opened + 1
    /\ initial_prompt' = InitialPrompt(test_file_path, conversation_snippet)
    /\ IF InRange(1, max_retries)
       THEN attempt' = 1 /\ pc' = "AwaitingPrompt" /\ UNCHANGED outcome
       ELSE UNCHANGED attempt /\ pc' = "LoopExit" /\ outcome' = "Exhausted"
    /\ UNCHANGED <<offloop, variant, max_retries, code_blocks, conversation_snippet,
                   user_prompt, stream, messages, conversation_history,
                   queries, test_log, exc, returned, transcript>>

\* The prompt of the iteration and await client.query(user_prompt).
SendQuery ==
    /\ pc = "AwaitingPrompt"
    /\ IF attempt # 1 /\ ~PrevResultReadable(conversation_history)
       THEN /\ exc' = "KeyError"
            /\ pc' = "Raised"
            /\ UNCHANGED <<user_prompt, queries, stream, messages>>
       ELSE LET prompt ==
                    IF attempt = 1
                    THEN initial_prompt
                    ELSE BuildRetryPrompt(
                             attempt,
                             LastEntry(conversation_history).test_result.output)
            IN /\ user_prompt' = prompt
               /\ \/ /\ stream' \in Streams
                     /\ queries' = Append(queries,
                            [prompt |-> prompt, attempt |-> attempt, ok |-> TRUE,
                             response |-> stream', session |-> sessions_opened,
                             on |-> session])
                     /\ messages' = <<>>
                     /\ pc' = "InSession"
                     /\ UNCHANGED exc
                  \/ /\ queries' = Append(queries,
                            [prompt |-> prompt, attempt |-> attempt, ok |-> FALSE,
                             response |-> <<>>, session |-> sessions_opened,
                             on |-> session])
                     /\ exc' \in SessionExceptions
                     /\ pc' = AfterSessionRaises
                     /\ UNCHANGED <<stream, messages>>
    /\ UNCHANGED <<offloop, sessions_opened, variant, max_retries, code_blocks, conversation_snippet,
                   initial_prompt, attempt, session, conversation_history,
                   test_log, outcome, returned, transcript>>

\* One turn of: async for message in client.receive_response()
ReceiveMessage ==
    /\ pc = "InSession"
    /\ stream # <<>>
    /\ messages' = Append(messages, Head(stream))
    /\ stream' = Tail(stream)
    /\ UNCHANGED <<offloop, sessions_opened, variant, max_retries, code_blocks, conversation_snippet,
                   initial_prompt, pc, attempt, session, user_prompt,
                   conversation_history, queries, test_log, outcome, exc,
                   returned, transcript>>

\* The session raises while the response is being read.
StreamRaises ==
    /\ pc = "InSession"
    /\ exc' \in SessionExceptions
    /\ pc' = AfterSessionRaises
    /\ UNCHANGED <<offloop, sessions_opened, variant, max_retries, code_blocks, conversation_snippet,
                   initial_prompt, attempt, session, user_prompt, stream,
                   messages, conversation_history, queries, test_log, outcome,
                   returned, transcript>>

\* The response is exhausted: conversation_history.append(entry)
StreamEnd ==
    /\ pc = "InSession"
    /\ ResponseExhausted(stream)
    /\ conversation_history' =
          Append(conversation_history, Entry(attempt, user_prompt, messages))
    /\ pc' = "Testing"
    /\ UNCHANGED <<offloop, sessions_opened, variant, max_retries, code_blocks, conversation_snippet,
                   initial_prompt, attempt, session, user_prompt, stream,
                   messages, queries, test_log, outcome, exc, returned,
                   transcript>>

\* test_success, test_output = cypress_executor.run(self.test_file_path)
\* conversation_history[-1]["test_result"] = (test_success, test_output)
RunTest ==
    /\ pc = "Testing"
    /\ \E proc \in ProcOutcomes :
          LET r == SubprocessExecutorRun(proc, Len(test_log) + 1)
          IN /\ test_log' = Append(test_log, r)
             /\ IF r.raised = "none"
                THEN /\ conversation_history' =
                          [conversation_history
                             EXCEPT ![ResultRecord(conversation_history)].test_result =
                                [present |-> TRUE, success |-> r.success,
                                 output |-> r.output]]
                     /\ pc' = "Evaluated"
                     /\ UNCHANGED exc
                ELSE /\ exc' = r.raised
                     /\ pc' = "Raised"
                     /\ UNCHANGED conversation_history
    /\ UNCHANGED <<offloop, sessions_opened, variant, max_retries, code_blocks, conversation_snippet,
                   initial_prompt, attempt, session, user_prompt, stream,
                   messages, queries, outcome, returned, transcript>>

\* if test_success: break; otherwise the next turn of the for loop.
Decide ==
    /\ pc = "Evaluated"
    /\ IF LoopBreaks(LastEntry(conversation_history).test_result.success)
       THEN outcome' = "Succeeded" /\ pc' = "LoopExit"
            /\ UNCHANGED <<attempt, sessions_opened>>
       ELSE IF InRange(attempt + 1, max_retries)
            THEN attempt' = attempt + 1 /\ pc' = "AwaitingPrompt"
                 /\ sessions_opened' = SessionOfNextAttempt(sessions_opened)
                 /\ UNCHANGED outcome
            ELSE outcome' = "Exhausted" /\ pc' = "LoopExit"
                 /\ UNCHANGED <<attempt, sessions_opened>>
    /\ UNCHANGED <<offloop, variant, max_retries, code_blocks, conversation_snippet,
                   initial_prompt, session, user_prompt, stream, messages,
                   conversation_history, queries, test_log, exc, returned,
                   transcript>>

\* Leaving the async with block: ClaudeSDKClient.__aexit__
ExitSession ==
    /\ pc \in {"LoopExit", "Raised"}
    /\ session' = SessionAfterBlock(pc)
    /\ pc' = "Closed"
    /\ UNCHANGED <<offloop, sessions_opened, variant, max_retries, code_blocks, conversation_snippet,
                   initial_prompt, attempt, user_prompt, stream, messages,
                   conversation_history, queries, test_log, outcome, exc,
                   returned, transcript>>

\* conversation_formatter.save(conversation_history, output_path): by
\* CodingAgentRunner.run_all_attempts before it returns, by CodingAgentApp.run
\* after CodingAgentFixRunner.run_all_attempts has returned.
Save ==
    /\ exc = "none"
    /\ \/ /\ variant = "Runner" /\ pc = "Closed"
          /\ transcript' =
                [exists |-> TRUE, doc |-> FormatConversation(conversation_history)]
          /\ pc' = "Saved"
       \/ /\ variant = "FixRunner" /\ pc = "Returned"
          /\ transcript' =
                [exists |-> TRUE, doc |-> FormatConversation(returned.value)]
          /\ pc' = "Done"
    /\ UNCHANGED <<offloop, sessions_opened, variant, max_retries, code_blocks, conversation_snippet,
                   initial_prompt, attempt, session, user_prompt, stream,
                   messages, conversation_history, queries, test_log, outcome,
                   exc, returned>>

\* return conversation_history
ReturnHistory ==
    /\ exc = "none"
    /\ \/ variant = "FixRunner" /\ pc = "Closed" /\ pc' = "Returned"
       \/ variant = "Runner" /\ pc = "Saved" /\ pc' = "Done"
    /\ returned' = [has |-> TRUE, value |-> conversation_history]
    /\ UNCHANGED <<offloop, sessions_opened, variant, max_retries, code_blocks, conversation_snippet,
                   initial_prompt, attempt, session, user_prompt, stream,
                   messages, conversation_history, queries, test_log, outcome,
                   exc, transcript>>

\* The exception leaves run_all_attempts, CodingAgentApp.run and main; the
\* handlers of __main__ print and exit (or re-raise).
Propagate ==
    /\ exc # "none"
    /\ pc = "Closed"
    /\ pc' = "Exited"
    /\ UNCHANGED <<offloop, sessions_opened, variant, max_retries, code_blocks, conversation_snippet,
                   initial_prompt, attempt, session, user_prompt, stream,
                   messages, conversation_history, queries, test_log, outcome,
                   exc, returned, transcript>>

Next ==
    \/ Construct
    \/ EnterSession
    \/ SendQuery
    \/ ReceiveMessage
    \/ StreamRaises
    \/ StreamEnd
    \/ RunTest
    \/ Decide
    \/ ExitSession
    \/ Save
    \/ ReturnHistory
    \/ Propagate

Spec == Init /\ [][Next]_vars

\* The run is one sequential coroutine: whenever a step is possible, one is
\* eventually taken; every response stream is finite.
FairSpec == Spec /\ WF_vars(Next)

\* ------------------------------------- the web agent stage and extraction

\* The repair loop has not started while the web agent stage runs; the
\* code-blocks file it reads is written after the extraction.
LoopNotStarted ==
    /\ variant = "FixRunner"
    /\ max_retries = MAX_RETRIES
    /\ code_blocks = [exists |-> FALSE, content |-> EmptyStr]
    /\ conversation_snippet = EmptyStr
    /\ initial_prompt = NoPrompt
    /\ pc = "Start"
    /\ attempt = 0
    /\ session = "unopened"
    /\ sessions_opened = 0
    /\ user_prompt = NoPrompt
    /\ stream = <<>>
    /\ messages = <<>>
    /\ conversation_history = <<>>
    /\ queries = <<>>
    /\ test_log = <<>>
    /\ outcome = "none"
    /\ exc = "none"
    /\ returned = NotReturned
    /\ transcript = NoTranscript

loopvars == <<variant, max_retries, code_blocks, conversation_snippet,
              initial_prompt, pc, attempt, session, sessions_opened,
              user_prompt, stream, messages, conversation_history, queries,
              test_log, outcome, exc, returned, transcript>>

\* What the steps of the web agent stage leave alone.
offweb == <<loopvars, ariavars, todovars, retryvars, pipevars>>

\* What the steps of one test run leave alone.
offaria == <<loopvars, webvars, todovars, retryvars, pipevars>>

\* What the steps on the checklist leave alone.
offtodo == <<loopvars, webvars, ariavars, retryvars, pipevars>>

\* What the steps of retry_model leave alone.
offretry == <<loopvars, webvars, ariavars, todovars, pipevars>>

\* What the steps of the pipeline leave alone.
offpipe == <<loopvars, webvars, ariavars, todovars, retryvars>>

\* WebAgentTestRunner.run after client.query: the response is being read.
\* A behaviour ends with one run of one extractor operation on the document
\* as it then is.
WebInit ==
    /\ LoopNotStarted
    /\ AriaIdle
    /\ TodoIdle
    /\ RetryIdle
    /\ PipeIdle
    /\ web_pc = "Collecting"
    /\ web_messages = <<>>
    /\ conversation_file = NoDocument
    /\ extracted = NotExtracted

\* The content blocks the session may deliver next.
NextBlocks(blocks) ==
    {WebText(Len(blocks) + 1)}
    \cup {WebToolUse(Len(blocks) + 1, name, input) :
             <<name, input>> \in
                 UNION {{<<n, inp>> : inp \in ToolInputs(n, Len(blocks) + 1)} :
                           n \in ToolNames}}
    \cup UNION {{WebToolResult(blocks[i].id, content) :
                    content \in ResultContents(blocks[i].name)} :
                 i \in Unanswered(blocks)}

\* _collect_messages: one block of one message of client.receive_response().
CollectMessage ==
    /\ web_pc = "Collecting"
    /\ extracted.op = "none"
    /\ Len(web_messages) < MaxBlocks
    /\ \E b \in NextBlocks(web_messages) :
          web_messages' = Append(web_messages, b)
    /\ UNCHANGED <<web_pc, conversation_file, extracted, offweb>>

\* WebAgentTestRunner.run: conversation_formatter.save(conversation_history,
\* conversation_path, show_tool_summary=True) once the response has ended.
WebSave ==
    /\ web_pc = "Collecting"
    /\ extracted.op = "none"
    /\ conversation_file' =
          [exists |-> TRUE, lines |-> RenderMarkdown(web_messages, TRUE)]
    /\ web_pc' = "Saved"
    /\ UNCHANGED <<web_messages, extracted, offweb>>

\* What a damaged tool input may read as: no JSON at all, or JSON of another
\* shape.
Damaged(val) ==
    {JsonGarbage(val.of), JsonArray(val.of), JsonTodosObject(val.of)}

RemoveLine(lines, i) ==
    SubSeq(lines, 1, i - 1) \o SubSeq(lines, i + 1, Len(lines))

\* The document handed to the extractor need not be what the formatter
\* wrote: the input of one tool section is damaged, or its "```json" line is
\* lost.
EditDocument ==
    /\ web_pc = "Saved"
    /\ extracted.op = "none"
    /\ \E i \in 1..Len(conversation_file.lines) :
          /\ conversation_file.lines[i].k = "input"
          /\ \/ \E v \in Damaged(conversation_file.lines[i + 3].val) :
                   conversation_file' =
                       [conversation_file EXCEPT !.lines[i + 3].val = v]
             \/ conversation_file' =
                   [conversation_file EXCEPT
                       !.lines = RemoveLine(conversation_file.lines, i + 2)]
    /\ web_pc' = "Edited"
    /\ UNCHANGED <<web_messages, extracted, offweb>>

\* extractor.extract_tool_calls() of a run of the extractor on the document as it is
\* (src/todo_extraction.py applies the operations to any path it is given).
CallExtractToolCalls ==
    /\ web_pc # "Idle"
    /\ extracted.op = "none"
    /\ extracted' = ExtractToolCalls(conversation_file)
    /\ UNCHANGED <<web_pc, web_messages, conversation_file, offweb>>

\* extractor.extract_last_todo_list() of a run of the extractor on the document as it is
\* (src/todo_extraction.py applies the operations to any path it is given).
CallExtractLastTodoList ==
    /\ web_pc # "Idle"
    /\ extracted.op = "none"
    /\ extracted' = ExtractLastTodoList(conversation_file)
    /\ UNCHANGED <<web_pc, web_messages, conversation_file, offweb>>

\* extractor.extract_last_todo() of a run of the extractor on the document as it is
\* (src/todo_extraction.py applies the operations to any path it is given).
CallExtractLastTodo ==
    /\ web_pc # "Idle"
    /\ extracted.op = "none"
    /\ extracted' = ExtractLastTodo(conversation_file)
    /\ UNCHANGED <<web_pc, web_messages, conversation_file, offweb>>

WebNext ==
    \/ CollectMessage
    \/ WebSave
    \/ EditDocument
    \/ CallExtractToolCalls
    \/ CallExtractLastTodoList
    \/ CallExtractLastTodo

SpecExtract == WebInit /\ [][WebNext]_vars


\* --------------------------------------------------- one run of the test

\* SubprocessExecutor.run after subprocess.run was started: the subprocess
\* is writing its output.
AriaInit ==
    /\ LoopNotStarted
    /\ WebIdle
    /\ TodoIdle
    /\ RetryIdle
    /\ PipeIdle
    /\ aria_pc = "Running"
    /\ raw_output = <<>>
    /\ returncode = 0
    /\ run_result = NoRunResult

\* The subprocess writes to stdout or stderr.
Emit ==
    /\ aria_pc = "Running"
    /\ Len(raw_output) < MaxTokens
    /\ \E tok \in OutputTokens : raw_output' = Append(raw_output, tok)
    /\ UNCHANGED <<aria_pc, returncode, run_result, offaria>>

\* subprocess.run returns the completed process.
ProcessExit ==
    /\ aria_pc = "Running"
    /\ \E rc \in {0, 1} : returncode' = rc
    /\ aria_pc' = "Exited"
    /\ UNCHANGED <<raw_output, run_result, offaria>>

\* The rest of SubprocessExecutor.run: success, output, the snapshot section.
RunReturns ==
    /\ aria_pc = "Exited"
    /\ run_result' = EnrichedRun(returncode, raw_output)
    /\ aria_pc' = "Returned"
    /\ UNCHANGED <<raw_output, returncode, offaria>>

AriaNext ==
    \/ Emit
    \/ ProcessExit
    \/ RunReturns

SpecAria == AriaInit /\ [][AriaNext]_vars

\* ------------------------------------------------ the checklist file

\* PlanningAgent.process_response has the planning response in hand.
TodoInit ==
    /\ LoopNotStarted
    /\ WebIdle
    /\ AriaIdle
    /\ RetryIdle
    /\ PipeIdle
    /\ todo_pc = "Planning"
    /\ todo_file = <<>>
    /\ current_step = 0

\* PlanningAgent.process_response: one line per todo of the response, in the
\* order of the response.
ProcessResponse ==
    /\ todo_pc = "Planning"
    /\ \E todos \in TodoLists(MaxTodos) : todo_file' = todos
    /\ todo_pc' = "Written"
    /\ UNCHANGED <<current_step, offtodo>>

\* The browser-automation stage reads the current step from the file.
SelectCurrentStep ==
    /\ todo_pc = "Written"
    /\ current_step' = CurrentStep(todo_file)
    /\ todo_pc' = "Selected"
    /\ UNCHANGED <<todo_file, offtodo>>

TodoNext ==
    \/ ProcessResponse
    \/ SelectCurrentStep

SpecTodo == TodoInit /\ [][TodoNext]_vars

\* ---------------------------------------------------- one model call

\* BaseAgent.retry_model is entered with a request: attempt = 0.
RetryInit ==
    /\ LoopNotStarted
    /\ WebIdle
    /\ AriaIdle
    /\ TodoIdle
    /\ PipeIdle
    /\ retry_pc = "Calling"
    /\ request \in Requests
    /\ retry_attempt = 0
    /\ handler_calls = <<>>
    /\ waited = 0
    /\ retry_outcome = NoOutcome

\* return await handler(request): the handler gives a response.
HandlerReturns ==
    /\ retry_pc = "Calling"
    /\ \E r \in {o \in HandlerOutcomes(request, Len(handler_calls) + 1) :
                    o.kind = "response"} :
          /\ handler_calls' = Append(handler_calls, r)
          /\ retry_outcome' = [kind |-> "returned", value |-> r]
    /\ retry_pc' = "Done"
    /\ UNCHANGED <<request, retry_attempt, waited, offretry>>

\* await handler(request) raises: `except Exception` takes an Exception, and
\* anything else leaves retry_model at once.
HandlerRaises ==
    /\ retry_pc = "Calling"
    /\ \E e \in {o \in HandlerOutcomes(request, Len(handler_calls) + 1) :
                    o.kind # "response"} :
          /\ handler_calls' = Append(handler_calls, e)
          /\ IF e.kind = "Exception"
             THEN /\ retry_pc' = "Except"
                  /\ UNCHANGED retry_outcome
             ELSE /\ retry_pc' = "Done"
                  /\ retry_outcome' = [kind |-> "raised", value |-> e]
    /\ UNCHANGED <<request, retry_attempt, waited, offretry>>

\* except Exception as e: if attempt == 2: raise
Reraise ==
    /\ retry_pc = "Except"
    /\ IsLastAttempt(retry_attempt)
    /\ retry_outcome' = [kind |-> "raised",
                         value |-> handler_calls[Len(handler_calls)]]
    /\ retry_pc' = "Done"
    /\ UNCHANGED <<request, retry_attempt, handler_calls, waited, offretry>>

\* except Exception as e: print(...), and the for loop goes on; when the
\* range is used up the function ends without a return statement.
RetryAfterError ==
    /\ retry_pc = "Except"
    /\ ~IsLastAttempt(retry_attempt)
    /\ waited' = waited + BackoffDelay(retry_attempt)
    /\ retry_attempt' = retry_attempt + 1
    /\ IF retry_attempt + 1 < RetryRange
       THEN /\ retry_pc' = "Calling"
            /\ UNCHANGED retry_outcome
       ELSE /\ retry_pc' = "Done"
            /\ retry_outcome' = [kind |-> "returned", value |-> [kind |-> "None"]]
    /\ UNCHANGED <<request, handler_calls, offretry>>

RetryNext ==
    \/ HandlerReturns
    \/ HandlerRaises
    \/ Reraise
    \/ RetryAfterError

SpecRetry == RetryInit /\ [][RetryNext]_vars

\* ------------------------------------------------------- the pipeline run

\* SelfHealingPipeline.__init__: run_uuid = uuid.uuid4(); the results
\* directory may hold the files of earlier runs.
PipeInit ==
    /\ LoopNotStarted
    /\ WebIdle
    /\ AriaIdle
    /\ TodoIdle
    /\ RetryIdle
    /\ pipe_pc = "Constructed"
    /\ run_uuid \in RunIds
    /\ results_dir \in SUBSET {f \in {ConversationPath(id) : id \in RunIds}
                                     \cup {CodeBlocksPath(id) : id \in RunIds} :
                                  f.id # run_uuid}
    /\ web_session = "unopened"
    /\ pipe_exc = NoPipeExc
    /\ pipe_log = <<>>
    /\ stage2_read = NoFile
    /\ repair_attempts = 0

\* Stage 1, WebAgentTestRunner.run: async with ClaudeSDKClient(...) is
\* entered, or fails to connect.
Stage1EnterSession ==
    /\ pipe_pc = "Constructed"
    /\ \/ /\ web_session' = "open"
          /\ pipe_log' = Append(pipe_log, "s1_session_opened")
          /\ pipe_pc' = "S1InSession"
          /\ UNCHANGED pipe_exc
       \/ /\ pipe_exc' = [stage |-> 1, type |-> "CLIConnectionError"]
          /\ pipe_pc' = Stage1Raised
          /\ UNCHANGED <<web_session, pipe_log>>
    /\ UNCHANGED <<run_uuid, results_dir, stage2_read, repair_attempts, offpipe>>

\* client.query and _collect_messages, then the async with block is left:
\* the session is closed whether or not the conversation raised.
Stage1Converse ==
    /\ pipe_pc = "S1InSession"
    /\ web_session' = "closed"
    /\ pipe_log' = Append(pipe_log, "s1_session_closed")
    /\ \/ pipe_pc' = "S1Closed" /\ UNCHANGED pipe_exc
       \/ /\ pipe_exc' = [stage |-> 1, type |-> "ProcessError"]
          /\ pipe_pc' = Stage1Raised
    /\ UNCHANGED <<run_uuid, results_dir, stage2_read, repair_attempts, offpipe>>

\* conversation_formatter.save(conversation_history, conversation_path, ...)
Stage1Save ==
    /\ pipe_pc = "S1Closed"
    /\ \/ /\ results_dir' = results_dir \cup {ConversationPath(run_uuid)}
          /\ pipe_log' = Append(pipe_log, "s1_transcript_saved")
          /\ pipe_pc' = "S1Saved"
          /\ UNCHANGED pipe_exc
       \/ /\ pipe_exc' = [stage |-> 1, type |-> "OSError"]
          /\ pipe_pc' = Stage1Raised
          /\ UNCHANGED <<results_dir, pipe_log>>
    /\ UNCHANGED <<run_uuid, web_session, stage2_read, repair_attempts, offpipe>>

\* WebAgentApp._extract_code_blocks: the three extractions from the
\* transcript, then the code-blocks file is written; an extraction or the
\* use of its result may raise, and so may the write.
Stage1Extract ==
    /\ pipe_pc = "S1Saved"
    /\ \/ /\ ConversationPath(run_uuid) \in results_dir
          /\ results_dir' = results_dir \cup {CodeBlocksPath(run_uuid)}
          /\ pipe_log' = Append(pipe_log, "s1_code_blocks_written")
          /\ pipe_pc' = "S1Extracted"
          /\ UNCHANGED pipe_exc
       \/ /\ pipe_exc' \in {[stage |-> 1, type |-> t] :
                               t \in {"AttributeError", "OSError"}}
          /\ pipe_pc' = Stage1Raised
          /\ UNCHANGED <<results_dir, pipe_log>>
    /\ UNCHANGED <<run_uuid, web_session, stage2_read, repair_attempts, offpipe>>

\* Stage 2: CodingAgentApp(task_id=self.run_uuid, ...).run() reads its
\* code-blocks file, or raises FileNotFoundError.
Stage2Start ==
    /\ pipe_pc = "S1Extracted"
    /\ pipe_log' = Append(pipe_log, "s2_started")
    /\ IF CodeBlocksPathRead(run_uuid) \in results_dir
       THEN /\ stage2_read' = CodeBlocksPathRead(run_uuid)
            /\ pipe_pc' = "S2Loop"
            /\ UNCHANGED pipe_exc
       ELSE /\ pipe_exc' = [stage |-> 2, type |-> "FileNotFoundError"]
            /\ pipe_pc' = "Failed"
            /\ UNCHANGED stage2_read
    /\ UNCHANGED <<run_uuid, results_dir, web_session, repair_attempts, offpipe>>

\* One attempt of run_all_attempts: the test fails and another attempt
\* follows, or the loop ends, or the attempt raises.
RepairAttempt ==
    /\ pipe_pc = "S2Loop"
    /\ repair_attempts < MAX_RETRIES
    /\ repair_attempts' = repair_attempts + 1
    /\ pipe_log' = Append(pipe_log, "s2_attempt")
    /\ \/ pipe_pc' = "S2Loop" /\ UNCHANGED pipe_exc
       \/ pipe_pc' = "S2LoopExit" /\ UNCHANGED pipe_exc
       \/ /\ pipe_exc' = [stage |-> 2, type |-> "TimeoutExpired"]
          /\ pipe_pc' = "Failed"
    /\ UNCHANGED <<run_uuid, results_dir, web_session, stage2_read, offpipe>>

\* The loop is over: the transcript of Stage 2 is saved and run returns.
Stage2Finish ==
    /\ \/ pipe_pc = "S2LoopExit"
       \/ pipe_pc = "S2Loop" /\ repair_attempts = MAX_RETRIES
    /\ pipe_log' = Append(pipe_log, "s2_finished")
    /\ pipe_pc' = "Completed"
    /\ UNCHANGED <<run_uuid, results_dir, web_session, pipe_exc, stage2_read,
                   repair_attempts, offpipe>>

PipeNext ==
    \/ Stage1EnterSession
    \/ Stage1Converse
    \/ Stage1Save
    \/ Stage1Extract
    \/ Stage2Start
    \/ RepairAttempt
    \/ Stage2Finish

SpecPipeline == PipeInit /\ [][PipeNext]_vars

\* ------------------------------------------------------------------ claims

Passed(i) == test_log[i].raised = "none" /\ test_log[i].success

\* C1: for max_retries = N >= 1, run_all_attempts makes exactly k attempts, k
\* the position of the first successful test run, or N when none of the first
\* N runs succeeds; the returned history has k records labelled
\* 'Fix Attempt 1' .. 'Fix Attempt k', each carrying its test result, failed on
\* 1..k-1 and successful on k exactly when a run succeeded; when all N runs
\* fail the N-record history is returned normally, without raising.
C1_ExactlyKAttempts ==
    (returned.has /\ max_retries >= 1) =>
        LET H == returned.value
            k == Len(H)
        IN /\ exc = "none"
           /\ 1 <= k /\ k <= max_retries
           /\ Len(test_log) = k
           /\ Len(queries) = k
           /\ \A i \in 1..k :
                 /\ H[i].step = <<"Fix Attempt", i>>
                 /\ H[i].test_result.present
                 /\ test_log[i].raised = "none"
                 /\ H[i].test_result.success = test_log[i].success
                 /\ H[i].test_result.output = test_log[i].output
                 /\ queries[i].ok /\ queries[i].attempt = i
           /\ \A i \in 1..(k - 1) : ~test_log[i].success
           /\ test_log[k].success \/ k = max_retries
           /\ (outcome = "Succeeded") = test_log[k].success
           /\ (outcome = "Exhausted") = ~test_log[k].success

\* The example of the spec: two failed runs, then a successful one, with the
\* default budget.
C1_Witness ==
    /\ returned.has
    /\ max_retries = MAX_RETRIES
    /\ Len(returned.value) = 3
    /\ ~returned.value[1].test_result.success
    /\ ~returned.value[2].test_result.success
    /\ returned.value[3].test_result.success

\* C2: once the test adapter has returned success for attempt k, no further
\* query is sent and the test adapter is not invoked again, even when
\* k < max_retries; the loop is left at once.
C2_SuccessShortCircuits ==
    [][(\E i \in DOMAIN test_log : Passed(i)) =>
          /\ queries' = queries
          /\ test_log' = test_log
          /\ attempt' = attempt
          /\ pc' \notin {"AwaitingPrompt", "InSession", "Testing"}]_vars

C2_Witness ==
    /\ pc = "Done"
    /\ outcome = "Succeeded"
    /\ attempt = 1
    /\ max_retries = 3
    /\ Len(queries) = 1
    /\ Len(test_log) = 1

\* One step of the repair loop seen as the state machine of C3.
C3_Step ==
    LET passed == LastEntry(conversation_history).test_result.success
    IN /\ (pc # "AwaitingPrompt" /\ pc' = "AwaitingPrompt") =>
             /\ pc \in {"Constructed", "Evaluated"}
             /\ attempt' = IF pc = "Constructed" THEN 1 ELSE attempt + 1
       /\ (pc = "AwaitingPrompt" /\ pc' # pc) =>
             pc' \in {"InSession", "Raised"} /\ attempt' = attempt
       /\ (pc = "InSession" /\ pc' # pc) =>
             pc' \in {"Testing", "Raised"} /\ attempt' = attempt
       /\ (pc = "Testing" /\ pc' # pc) =>
             pc' \in {"Evaluated", "Raised"} /\ attempt' = attempt
       /\ (pc = "Evaluated" /\ pc' # pc) =>
             /\ (outcome' = "Succeeded") = passed
             /\ (outcome' = "Exhausted") = (~passed /\ attempt = max_retries)
             /\ (pc' = "AwaitingPrompt") = (~passed /\ attempt < max_retries)
             /\ outcome' # "none" => (pc' = "LoopExit" /\ attempt' = attempt)
       /\ outcome # "none" => (outcome' = outcome /\ attempt' = attempt)

\* C3: the loop is the state machine AwaitingPrompt(k) -> InSession(k) ->
\* Evaluated(k), k starting at 1 and growing by one per failed attempt; from
\* Evaluated(k) it goes to Succeeded iff the test of attempt k passed, to
\* Exhausted iff it failed and k = max_retries, to AwaitingPrompt(k+1)
\* otherwise; k never exceeds max_retries; and unless a response stream or a
\* test execution raises, the loop eventually reaches Succeeded or Exhausted.
C3_StateMachine ==
    /\ [](attempt <= max_retries)
    /\ [](pc \in {"AwaitingPrompt", "InSession", "Testing", "Evaluated"} =>
             (attempt >= 1 /\ outcome = "none"))
    /\ [][C3_Step]_vars
    /\ <>(outcome \in {"Succeeded", "Exhausted"} \/ exc # "none")

C3_Witness ==
    /\ outcome = "Exhausted"
    /\ max_retries = 3
    /\ attempt = 3
    /\ Len(test_log) = 3
    /\ exc = "none"

\* C4: the session opened by run_all_attempts is closed on every exit path
\* (return after success, return after exhaustion, an exception of the session
\* in query or while streaming, an exception of the test adapter): once the
\* block is left, and in every terminal state, the session is not open.
C4_SessionClosed ==
    /\ pc \in {"Closed", "Saved", "Returned", "Done"} => session = "closed"
    /\ pc = "Exited" =>
          session = IF exc = "FileNotFoundError" THEN "unopened" ELSE "closed"
    /\ session = "open" =>
          pc \in {"AwaitingPrompt", "InSession", "Testing", "Evaluated",
                  "LoopExit", "Raised"}

\* The test adapter raised in the second attempt and the run has ended.
C4_Witness ==
    /\ pc = "Exited"
    /\ exc = "OSError"
    /\ Len(test_log) = 2
    /\ session = "closed"

\* C5: a timeout of the test subprocess is an execution failure, not a fatal
\* error: the run that timed out yields a failed outcome recorded on its
\* attempt, and no TimeoutExpired aborts the run.
C5_TimeoutIsFailure ==
    \A i \in DOMAIN test_log :
        test_log[i].proc = "timeout" =>
            /\ exc # "TimeoutExpired"
            /\ Len(conversation_history) >= i
            /\ conversation_history[i].test_result.present
            /\ ~conversation_history[i].test_result.success

\* The transcript document holds the whole history: one section per record, in
\* order, with its label, prompt, model turns (tool invocations and tool
\* results among them) and test result, the output cut to its first 5000
\* characters as the formatter does.
C6_Persisted ==
    /\ transcript.exists
    /\ Len(transcript.doc) = Len(conversation_history)
    /\ \A i \in DOMAIN conversation_history :
          LET e == conversation_history[i]
              d == transcript.doc[i]
          IN /\ d.heading = <<"Fix Attempt", i>>
             /\ d.prompt = e.user_prompt
             /\ d.turns = e.messages
             /\ d.has_result
             /\ d.success = e.test_result.success
             /\ d.shown.src = i
             /\ d.shown.lo = 0
             /\ d.shown.hi = IF StrLen(e.test_result.output) > 5000
                             THEN 5000 ELSE StrLen(e.test_result.output)

\* C6: whatever the final outcome of the loop (Succeeded on any attempt, or
\* Exhausted), the full history, one record per attempt made, is eventually
\* handed to the formatter and written to the transcript document, and only
\* after the loop has ended.
C6_HistoryPersisted ==
    /\ [](outcome \in {"Succeeded", "Exhausted"} => <>C6_Persisted)
    /\ [](transcript.exists =>
             (outcome \in {"Succeeded", "Exhausted"} /\ session = "closed"))

C6_Witness ==
    /\ C6_Persisted
    /\ outcome = "Exhausted"
    /\ max_retries = 2
    /\ Len(transcript.doc) = 2
    /\ transcript.doc[1].truncated
    /\ ~transcript.doc[2].success

\* C7: when the run is interrupted or aborted after at least one record has
\* been appended to the history, the history that exists at that moment is
\* persisted to the transcript document before the orchestrator exits.
C7_PersistedOnAbort ==
    (pc = "Exited" /\ Len(conversation_history) >= 1) =>
        /\ transcript.exists
        /\ Len(transcript.doc) = Len(conversation_history)

\* The last n characters of a text of length len taken from source src.
ExpectedTail(src, len, n) == Str(src, IF len > n THEN len - n ELSE 0, len)

\* C8: the prompt of attempt 1 is the initial prompt, built from the test file
\* path and the last 15000 characters of the upstream content; the prompt of
\* every attempt k > 1 is a follow-up prompt that embeds the last 10000
\* characters of the test output of attempt k-1, of no older attempt, and
\* names attempt k-1; the initial prompt is sent for attempt 1 only.
C8_Prompts ==
    \A i \in DOMAIN queries :
        LET q == queries[i]
        IN /\ q.attempt = i
           /\ i = 1 =>
                 /\ q.prompt.kind = "initial"
                 /\ q.prompt.path = test_file_path
                 /\ q.prompt.snippet =
                       ExpectedTail(0, StrLen(code_blocks.content), 15000)
           /\ i > 1 =>
                 /\ q.prompt.kind = "retry"
                 /\ q.prompt.names = i - 1
                 /\ test_log[i - 1].raised = "none"
                 /\ q.prompt.snippet =
                       ExpectedTail(i - 1, StrLen(test_log[i - 1].output), 10000)

\* The third query embeds the cut output of the second run, the first run's
\* output being shorter.
C8_Witness ==
    /\ Len(queries) = 3
    /\ StrLen(code_blocks.content) = 15001
    /\ StrLen(test_log[1].output) = 5000
    /\ StrLen(test_log[2].output) = 10001
    /\ queries[3].prompt.snippet = Str(2, 1, 10001)
    /\ queries[2].prompt.snippet = Str(1, 0, 5000)

\* C9: the events of a run are strictly sequential: the query of attempt k,
\* then the whole response of that query, then one invocation of the test
\* adapter, and only then the query of attempt k+1; no two attempts are in
\* progress at once and a test never overlaps a query or a response.
C9_Sequential ==
    [][/\ queries' # queries =>
             /\ Len(queries') = Len(queries) + 1
             /\ Len(test_log) = Len(queries)
             /\ Len(conversation_history) = Len(queries)
             /\ stream = <<>>
             /\ queries'[Len(queries')].attempt = Len(queries')
       /\ Len(messages') > Len(messages) =>
             /\ Len(messages') = Len(messages) + 1
             /\ messages' = SubSeq(queries[Len(queries)].response, 1, Len(messages'))
             /\ Len(queries) = Len(test_log) + 1
             /\ Len(conversation_history) = Len(test_log)
       /\ test_log' # test_log =>
             /\ Len(test_log') = Len(test_log) + 1
             /\ Len(queries) = Len(test_log')
             /\ queries[Len(queries)].ok
             /\ stream = <<>>
             /\ messages = queries[Len(queries)].response
             /\ LastEntry(conversation_history).messages = messages
             /\ Len(conversation_history) = Len(test_log')]_vars

C9_Witness ==
    /\ pc = "Evaluated"
    /\ Len(test_log) = 2
    /\ Len(queries) = 2
    /\ Len(messages) = 3
    /\ Len(conversation_history[1].messages) = 1

\* C10: when the session raises during attempt k (in query or while the
\* response is read), the exception leaves run_all_attempts and the run
\* aborts: the query is not sent again, no test runs for attempt k, no attempt
\* k+1 starts and no history is returned to the caller.
C10_SessionFailureAborts ==
    /\ [](exc = "SessionError" =>
             /\ pc \in {"Raised", "Closed", "Exited"}
             /\ ~returned.has
             /\ outcome = "none"
             /\ Len(queries) = attempt
             /\ Len(test_log) = attempt - 1)
    /\ [][exc = "SessionError" =>
             /\ queries' = queries
             /\ test_log' = test_log
             /\ attempt' = attempt
             /\ returned' = returned
             /\ exc' = exc]_vars

C10_Witness ==
    /\ exc = "SessionError"
    /\ pc = "Exited"
    /\ attempt = 2
    /\ Len(conversation_history) = 1
    /\ Len(messages) = 2

\* C11: all attempts of a run share one long-lived session: the run opens
\* exactly one session, every query is sent on it, it is neither closed nor
\* replaced between attempts, and every query, response read and test
\* execution happens while it is open.
C11_SingleSession ==
    /\ [](sessions_opened <= 1)
    /\ [](\A i \in DOMAIN queries :
             queries[i].session = 1 /\ queries[i].on = "open")
    /\ [][(\/ queries' # queries
           \/ test_log' # test_log
           \/ Len(messages') > Len(messages)
           \/ Len(conversation_history') > Len(conversation_history)) =>
             (session = "open" /\ session' = "open" /\ sessions_opened = 1)]_vars
    /\ [][(attempt >= 1 /\ attempt' # attempt) =>
             (session' = session /\ sessions_opened' = sessions_opened)]_vars
    /\ [][session = "closed" => session' = "closed"]_vars

C11_Witness ==
    /\ Len(queries) = 3
    /\ Len(test_log) = 3
    /\ queries[1].session = 1
    /\ queries[3].session = 1
    /\ sessions_opened = 1
    /\ session = "open"

\* C12 as stated: a record is appended to the history only once it carries its
\* test outcome, and a record in the history is never modified.
C12_FinalizedThenAppended ==
    [][/\ \A i \in DOMAIN conversation_history :
             conversation_history'[i] = conversation_history[i]
       /\ Len(conversation_history') > Len(conversation_history) =>
             LastEntry(conversation_history').test_result.present]_vars

\* C12, amended: a record is appended when the response of its attempt has
\* been read, before the test runs and without a test result; the result is
\* attached to that last record when the test adapter returns; a record that
\* carries its test result is never modified, no record but the last is ever
\* modified, and the only modification is the attaching of the test result.
C12_AppendedThenFinalized ==
    [][LET h == conversation_history
           h2 == conversation_history'
       IN /\ Len(h2) >= Len(h)
          /\ Len(h2) > Len(h) =>
                /\ Len(h2) = Len(h) + 1
                /\ ~h2[Len(h2)].test_result.present
                /\ Len(test_log) = Len(h)
                /\ \A i \in DOMAIN h : h[i].test_result.present /\ h2[i] = h[i]
          /\ \A i \in DOMAIN h :
                h2[i] # h[i] =>
                   /\ i = Len(h)
                   /\ ~h[i].test_result.present
                   /\ h2[i].test_result.present
                   /\ h2[i] = [h[i] EXCEPT !.test_result = h2[i].test_result]
                   /\ Len(test_log') = i
                   /\ h2[i].test_result.success = test_log'[i].success
                   /\ h2[i].test_result.output = test_log'[i].output]_vars

\* The second record is in the history while its test has not run yet.
C12_Witness ==
    /\ pc = "Testing"
    /\ Len(conversation_history) = 2
    /\ conversation_history[1].test_result.present
    /\ ~conversation_history[2].test_result.present

\* --------------------------------------------- claims on the extraction

\* A tool result with this tool_use_id reports Playwright code.
HasCodeOutput(blocks, id) ==
    \E j \in 1..Len(blocks) :
        /\ blocks[j].kind = "tool_result"
        /\ blocks[j].id = id
        /\ blocks[j].content = "playwright"

\* The invocations of a history that have an input and a Playwright code
\* output, in their order in the history.
InvocationsWithCode(blocks) ==
    LET idx == Ascending({i \in 1..Len(blocks) :
                             /\ blocks[i].kind = "tool_use"
                             /\ HasCodeOutput(blocks, blocks[i].id)})
    IN [n \in 1..Len(idx) |->
           [tool_name |-> blocks[idx[n]].name,
            input_data |-> blocks[idx[n]].input,
            code_of |-> blocks[idx[n]].id]]

\* The invocation whose result the code of a record comes from (0: none).
CodeOf(call) ==
    IF Len(call.playwright_code) = 1 /\ call.playwright_code[1].k = "code"
    THEN call.playwright_code[1].id
    ELSE 0

\* The records of an outcome without their descriptions.
Pairings(calls) ==
    [n \in 1..Len(calls) |->
        [tool_name |-> calls[n].tool_name,
         input_data |-> calls[n].input_data,
         code_of |-> CodeOf(calls[n])]]

\* extract_tool_calls has been applied to the document as the formatter
\* wrote it.
ExtractedFromSaved ==
    web_pc = "Saved" /\ extracted.op = "extract_tool_calls"

\* C13: extract_tool_calls on the document rendered from a history with
\* show_tool_summary = true returns exactly the invocations of the history
\* that had both an input and a Playwright code output, in their order.
C13_RoundTrip ==
    ExtractedFromSaved =>
        /\ extracted.raised = "none"
        /\ Pairings(extracted.calls) = InvocationsWithCode(web_messages)

\* C14: a record is emitted only for an invocation that has both an input and
\* a code output, and its tool name, input and code belong to that one
\* invocation; a history whose only invocation has no code output yields no
\* record.
C14_SameInvocation ==
    ExtractedFromSaved =>
        \A n \in 1..Len(extracted.calls) :
            LET call == extracted.calls[n]
            IN /\ HasCodeOutput(web_messages, call.input_data.of)
               /\ CodeOf(call) = call.input_data.of
               /\ \E i \in 1..Len(web_messages) :
                     /\ web_messages[i].kind = "tool_use"
                     /\ web_messages[i].id = call.input_data.of
                     /\ web_messages[i].name = call.tool_name

\* extract_last_todo_list has been applied to an existing document.
ListedFromDocument ==
    extracted.op = "extract_last_todo_list" /\ conversation_file.exists

\* The lines that read "#### Tool: TodoWrite".
TodoMarkers(lines) ==
    {i \in 1..Len(lines) : lines[i].k = "tool" /\ lines[i].name = "TodoWrite"}

\* Line j lies in the section that starts at marker m: no tool heading from
\* the line after m up to j.
InSectionOf(lines, m, j) ==
    /\ m < j /\ j <= Len(lines)
    /\ \A t \in (m + 1)..j : lines[t].k # "tool"

\* The TodoWrite invocations of a history.
TodoUses(blocks) ==
    {i \in 1..Len(blocks) :
        blocks[i].kind = "tool_use" /\ blocks[i].name = "TodoWrite"}

\* C15: with several checklist markers in the document, extract_last_todo_list
\* parses the snapshot that follows the marker at the greatest offset, within
\* the section from that marker to the next tool marker or the end of the
\* document, and never returns the content of an earlier snapshot; on the
\* document as the formatter wrote it, it returns the input of the last
\* TodoWrite invocation.
C15_LastSnapshot ==
    ListedFromDocument =>
        LET lines == conversation_file.lines
            T == TodoMarkers(lines)
        IN /\ (T # {} /\ extracted.snapshot.present) =>
                 \E m \in T :
                    /\ \A x \in T : x <= m
                    /\ \E j \in 1..Len(lines) :
                          /\ InSectionOf(lines, m, j)
                          /\ lines[j].k = "json"
                          /\ lines[j - 1].k = "fence_json"
                          /\ lines[j].val = extracted.snapshot.val
                    /\ \A e \in 1..m :
                          lines[e].k = "json" =>
                              lines[e].val # extracted.snapshot.val
           /\ (web_pc = "Saved" /\ TodoUses(web_messages) # {}) =>
                 \E u \in TodoUses(web_messages) :
                    /\ \A x \in TodoUses(web_messages) : x <= u
                    /\ extracted.snapshot =
                          [present |-> TRUE, val |-> web_messages[u].input]

\* Three markers, the snapshots differ, and the one returned is the last.
C15_Witness ==
    /\ ListedFromDocument
    /\ Cardinality(TodoMarkers(conversation_file.lines)) = 3
    /\ extracted.snapshot.present
    /\ extracted.snapshot.val.todos # <<>>
    /\ \E i \in TodoUses(web_messages) :
          web_messages[i].input.todos = <<>>

\* The lines of the first fenced JSON block of the section of marker m: from
\* the first "```json" of the section to the next line of back-ticks.  <<>>
\* when the section has no such block.
FirstJsonBlock(lines, m) ==
    LET J == {j \in 1..Len(lines) :
                 InSectionOf(lines, m, j) /\ lines[j].k = "fence_json"}
    IN IF J = {} THEN <<>>
       ELSE LET a == CHOOSE j \in J : \A x \in J : j <= x
                E == {e \in 1..Len(lines) :
                         InSectionOf(lines, m, e) /\ e > a /\ IsFence(lines[e])}
            IN IF E = {} THEN <<>>
               ELSE SubSeq(lines, a, CHOOSE e \in E : \A x \in E : e <= x)

\* The text inside a fenced block parses as JSON.
BlockParses(block) ==
    /\ Len(block) = 3
    /\ block[2].k = "json"
    /\ block[2].val.ok

\* C16: on an existing document extract_last_todo_list returns absent and does
\* not raise when there is no checklist marker, when the section of the last
\* marker has no fenced JSON block, and when the first fenced JSON block of
\* that section does not parse, whatever the earlier snapshots are.
C16_AbsentNotRaised ==
    ListedFromDocument =>
        LET lines == conversation_file.lines
            T == TodoMarkers(lines)
        IN /\ extracted.raised = "none"
           /\ T = {} => extracted.snapshot = NoSnapshot
           /\ \A m \in T :
                 (/\ \A x \in T : x <= m
                  /\ ~BlockParses(FirstJsonBlock(lines, m)))
                 => extracted.snapshot = NoSnapshot

\* The last section was damaged, an earlier snapshot is well formed, and the
\* outcome is absent.
C16_Witness ==
    /\ ListedFromDocument
    /\ web_pc = "Edited"
    /\ extracted.snapshot = NoSnapshot
    /\ \E m \in TodoMarkers(conversation_file.lines) :
          \E e \in TodoMarkers(conversation_file.lines) :
             /\ e < m
             /\ BlockParses(FirstJsonBlock(conversation_file.lines, e))
             /\ FirstJsonBlock(conversation_file.lines, m) = <<>>

\* As C16_Witness, for a block that is there and does not parse.
C16_WitnessUnparsable ==
    /\ ListedFromDocument
    /\ extracted.snapshot = NoSnapshot
    /\ \E m \in TodoMarkers(conversation_file.lines) :
          \E e \in TodoMarkers(conversation_file.lines) :
             /\ e < m
             /\ BlockParses(FirstJsonBlock(conversation_file.lines, e))
             /\ Len(FirstJsonBlock(conversation_file.lines, m)) = 3
             /\ ~BlockParses(FirstJsonBlock(conversation_file.lines, m))

\* The heading line of the section a record of the formatter's document was
\* read from: the heading of the invocation its input belongs to.
HeadingOf(lines, call) ==
    CHOOSE p \in 1..Len(lines) :
        lines[p].k = "tool" /\ lines[p].id = call.input_data.of

\* The trimmed text between line a (exclusive) and line p (exclusive).
TextBetween(lines, a, p) == Strip(SubSeq(lines, a + 1, p - 1))

\* The description the claim assigns to the record read at heading p.
ClaimedDescription(lines, p) ==
    LET Before == {t \in 1..(p - 1) : lines[t].k = "tool"}
    IN IF Before = {}
       THEN LET R == {r \in 1..(p - 1) : lines[r].k = "h_response"}
            IN IF R = {} THEN <<>>
               ELSE TextBetween(lines, CHOOSE r \in R : \A x \in R : x <= r, p)
       ELSE LET prev == CHOOSE t \in Before : \A x \in Before : x <= t
                F == {f \in prev..(p - 1) : lines[f].k = "fence"}
            IN IF F = {} THEN <<>>
               ELSE TextBetween(lines, CHOOSE f \in F : \A x \in F : x <= f, p)

\* C17: the description of every record is the trimmed text between the end
\* of the previous section's final fenced block and the record's tool
\* heading; for the first tool section of the document it is the trimmed text
\* between the "Claude's Response" heading and the first tool heading.
C17_Description ==
    ExtractedFromSaved =>
        \A n \in 1..Len(extracted.calls) :
            extracted.calls[n].description =
                ClaimedDescription(conversation_file.lines,
                                   HeadingOf(conversation_file.lines,
                                             extracted.calls[n]))

\* The snapshot has the expected shape: an object whose "todos" is a list.
WellShaped(val) == val.shape = "object" /\ val.todos_kind = "list"

\* C18: on an existing document extract_last_todo returns the last element of
\* the items of the last checklist snapshot, and returns absent without
\* raising when there is no snapshot, when the snapshot has no items and when
\* the parsed snapshot does not have the expected shape.
C18_LastItemOrAbsent ==
    (extracted.op = "extract_last_todo" /\ conversation_file.exists) =>
        LET last == ExtractLastTodoList(conversation_file).snapshot
        IN /\ extracted.raised = "none"
           /\ IF last.present /\ WellShaped(last.val) /\ last.val.todos # <<>>
              THEN extracted.item =
                      [present |-> TRUE,
                       item |-> last.val.todos[Len(last.val.todos)]]
              ELSE extracted.item = NoItem

\* The section of the tool heading at line p: up to the line before the next
\* tool heading, or to the end of the document.
SectionAt(lines, p) ==
    LET S == {j \in p..Len(lines) : j = p \/ InSectionOf(lines, p, j)}
    IN SubSeq(lines, p, CHOOSE j \in S : \A x \in S : x <= j)

\* The section has both an input block and a Playwright code block.
HasBothBlocks(section) ==
    InputMatch(section).found /\ PlaywrightMatch(section).found

\* The input JSON of the section parses.
InputParses(section) ==
    JsonLoads(InputMatch(section).group).raised = "none"

\* The headings of the well-formed sections, in document order.
WellFormedSections(lines) ==
    Ascending({p \in 1..Len(lines) :
                  /\ lines[p].k = "tool"
                  /\ HasBothBlocks(SectionAt(lines, p))
                  /\ InputParses(SectionAt(lines, p))})

\* The headings of the sections that have both blocks and an input that does
\* not parse.
MalformedSections(lines) ==
    {p \in 1..Len(lines) :
        /\ lines[p].k = "tool"
        /\ HasBothBlocks(SectionAt(lines, p))
        /\ ~InputParses(SectionAt(lines, p))}

\* C19: extract_tool_calls does not raise when the input JSON of a section
\* fails to parse; it skips that section only, and returns the records of all
\* well-formed sections, before and after it, in document order.
C19_SkipsMalformedOnly ==
    (extracted.op = "extract_tool_calls" /\ conversation_file.exists) =>
        LET lines == conversation_file.lines
            good == WellFormedSections(lines)
        IN /\ extracted.raised = "none"
           /\ Len(extracted.calls) = Len(good)
           /\ \A n \in 1..Len(good) :
                 LET section == SectionAt(lines, good[n])
                 IN /\ extracted.calls[n].tool_name = lines[good[n]].name
                    /\ extracted.calls[n].input_data =
                          JsonLoads(InputMatch(section).group).val
                    /\ extracted.calls[n].playwright_code =
                          Strip(PlaywrightMatch(section).group)

\* A section with an unparsable input is followed by a well-formed section,
\* whose record is returned.
C19_Witness ==
    /\ extracted.op = "extract_tool_calls"
    /\ extracted.raised = "none"
    /\ Len(extracted.calls) = 1
    /\ \E p \in MalformedSections(conversation_file.lines) :
          \E q \in 1..Len(conversation_file.lines) :
             /\ p < q
             /\ conversation_file.lines[q].k = "tool"
             /\ conversation_file.lines[q].id = extracted.calls[1].input_data.of

\* As C19_Witness, with the well-formed section before the malformed one.
C19_WitnessBefore ==
    /\ extracted.op = "extract_tool_calls"
    /\ extracted.raised = "none"
    /\ Len(extracted.calls) = 1
    /\ \E p \in MalformedSections(conversation_file.lines) :
          \E q \in 1..Len(conversation_file.lines) :
             /\ q < p
             /\ conversation_file.lines[q].k = "tool"
             /\ conversation_file.lines[q].id = extracted.calls[1].input_data.of

\* C20: when the document does not exist, extract_last_todo_list,
\* extract_last_todo and extract_tool_calls each fail with FileNotFoundError
\* instead of returning absent or an empty sequence, nothing is parsed, and
\* the document is not created by the operation; an operation fails so only
\* when the document does not exist.
C20_NotFound ==
    extracted.op # "none" =>
        /\ ~conversation_file.exists =>
              /\ extracted.raised = "FileNotFoundError"
              /\ extracted.calls = NoCalls
              /\ extracted.snapshot = NoSnapshot
              /\ extracted.item = NoItem
        /\ extracted.raised = "FileNotFoundError" =>
              conversation_file = NoDocument

\* extract_last_todo was applied while the web agent had not yet saved the
\* document, and failed.
C20_Witness ==
    /\ extracted.op = "extract_last_todo"
    /\ extracted.raised = "FileNotFoundError"
    /\ ~conversation_file.exists
    /\ web_messages # <<>>

\* As C20_Witness, for extract_last_todo_list.
C20_WitnessList ==
    /\ extracted.op = "extract_last_todo_list"
    /\ extracted.raised = "FileNotFoundError"
    /\ ~conversation_file.exists

\* As C20_Witness, for extract_tool_calls.
C20_WitnessCalls ==
    /\ extracted.op = "extract_tool_calls"
    /\ extracted.raised = "FileNotFoundError"
    /\ ~conversation_file.exists

\* --------------------------------------------- claims on the whole pipeline

\* C21: when the upstream code-blocks file does not exist, CodingAgentApp.run
\* fails with FileNotFoundError carrying the remediation hint before anything
\* else happens: no session is opened, no query is sent, no test is run, no
\* transcript is written and nothing is returned.
C21_MissingUpstreamFile ==
    (variant = "FixRunner" /\ ~code_blocks.exists /\ pc # "Start") =>
        /\ exc = "FileNotFoundError"
        /\ TextFileLoaderRead(code_blocks).hint = CodeBlocksHint
        /\ pc = "Exited"
        /\ session = "unopened"
        /\ sessions_opened = 0
        /\ queries = <<>>
        /\ test_log = <<>>
        /\ conversation_history = <<>>
        /\ transcript = NoTranscript
        /\ returned = NotReturned

\* The run with a missing file has ended.
C21_Witness ==
    /\ variant = "FixRunner"
    /\ ~code_blocks.exists
    /\ pc = "Exited"
    /\ exc = "FileNotFoundError"

\* The tool result at turn i answers no tool use seen earlier in the turns.
UnresolvedAt(turns, i) ==
    /\ turns[i].kind = "tool_result"
    /\ \A j \in 1..(i - 1) :
          ~(turns[j].kind = "tool_use" /\ turns[j].id = turns[i].id)

\* The names under which the summary of a record lists its tool outputs.
SummaryNames(turns) ==
    LET lines == RenderSummary(turns, Len(turns))
    IN {<<lines[n].id, lines[n].name>> :
           n \in {m \in 1..Len(lines) : lines[m].k = "summary_item"}}

\* C22: a tool result whose tool_use_id is that of no tool use seen earlier
\* in the same record is rendered, listed in the summary and reported by the
\* runner under the name "Unknown", a resolved one under the name of its tool
\* use; nothing is raised and the remaining turns and records are rendered.
C22_UnknownTool ==
    /\ \A r \in 1..Len(conversation_history) :
          \A i \in 1..Len(conversation_history[r].messages) :
             LET msgs == conversation_history[r].messages
             IN msgs[i].kind = "tool_result" =>
                   IF UnresolvedAt(msgs, i)
                   THEN ReportedToolName(msgs, i) = "Unknown"
                   ELSE ReportedToolName(msgs, i) = "Edit"
    /\ transcript.exists =>
          /\ Len(transcript.doc) = Len(conversation_history)
          /\ \A r \in 1..Len(transcript.doc) :
                LET d == transcript.doc[r]
                IN /\ d.turns = conversation_history[r].messages
                   /\ Len(d.outputs) = Len(d.turns)
                   /\ \A i \in 1..Len(d.turns) :
                         d.turns[i].kind = "tool_result" =>
                            /\ d.outputs[i] =
                                  (IF UnresolvedAt(d.turns, i)
                                   THEN "Unknown" ELSE "Edit")
                            /\ <<d.turns[i].id,
                                  IF UnresolvedAt(d.turns, i)
                                  THEN "Unknown" ELSE "Edit">>
                                  \in SummaryNames(d.turns)

\* The transcript holds a record with an unresolved result, then a record
\* with a resolved one.
C22_Witness ==
    /\ transcript.exists
    /\ Len(transcript.doc) >= 2
    /\ \E i \in 1..Len(transcript.doc[1].turns) :
          /\ UnresolvedAt(transcript.doc[1].turns, i)
          /\ transcript.doc[1].outputs[i] = "Unknown"
    /\ \E i \in 1..Len(transcript.doc[2].turns) :
          /\ transcript.doc[2].turns[i].kind = "tool_result"
          /\ transcript.doc[2].outputs[i] = "Edit"

\* ------------------------------------------------ claims on the test run

\* The run has returned for a failing subprocess.
FailedRunReturned == aria_pc = "Returned" /\ returncode # 0

\* The raw output holds the marker.
HasMarker(output) == \E i \in 1..Len(output) : output[i].t = "marker"

\* C23: when the test run fails and its raw output holds no marker, or no
\* non-empty region is located from the marker, the output returned by run is
\* stdout + stderr, unchanged.
C23_RawOutputKept ==
    (FailedRunReturned /\ ~ExtractAriaSnapshot(raw_output).found)
        => run_result = [success |-> FALSE, output |-> raw_output]

\* A failing run whose non-empty output has no marker at all has returned.
C23_Witness ==
    /\ FailedRunReturned
    /\ raw_output # <<>>
    /\ ~HasMarker(raw_output)

\* A failing run whose output has the marker, a line after it, and no
\* non-empty region has returned.
C23_WitnessNoRegion ==
    /\ FailedRunReturned
    /\ HasMarker(raw_output)
    /\ FindTok(raw_output, "nl", FindTok(raw_output, "marker", 1)) # 0
    /\ ~ExtractAriaSnapshot(raw_output).found

\* What run appended to the raw output.
Appended == SubSeq(run_result.output, Len(raw_output) + 1, Len(run_result.output))

\* The appended text without its header and footer.
Shown ==
    SubSeq(Appended, Len(SectionHeader) + 1, Len(Appended) - Len(SectionFooter))

\* a is the text of the last Chars(a) characters of b.
IsTailOf(a, b) ==
    /\ Len(a) <= Len(b)
    /\ \A i \in 2..Len(a) : a[i] = b[Len(b) - Len(a) + i]
    /\ Len(a) > 0 =>
          LET x == a[1]
              y == b[Len(b) - Len(a) + 1]
          IN  x = y \/ (x.n < y.n /\ x.t = IF y.t = "txt" THEN "txt" ELSE "frag")

\* C24: the section appended to a failing run's output holds the whole
\* region when the region has at most 30000 characters, and otherwise the
\* last 30000 characters of the region and then the truncation notice; the
\* returned output exceeds the raw output by at most 30000 characters plus
\* the header, the notice and the footer.
C24_SectionBounded ==
    (FailedRunReturned /\ ExtractAriaSnapshot(raw_output).found) =>
        LET region == ExtractAriaSnapshot(raw_output).snapshot
        IN  /\ SubSeq(run_result.output, 1, Len(raw_output)) = raw_output
            /\ SubSeq(Appended, 1, Len(SectionHeader)) = SectionHeader
            /\ SubSeq(Appended, Len(Appended) - Len(SectionFooter) + 1,
                      Len(Appended)) = SectionFooter
            /\ IF Chars(region) <= 30000
               THEN Shown = region
               ELSE \E shown \in {SubSeq(Shown, 1, Len(Shown) - Len(TruncationNotice))} :
                       /\ Shown = shown \o TruncationNotice
                       /\ Chars(shown) = 30000
                       /\ IsTailOf(shown, region)
            /\ Chars(run_result.output) - Chars(raw_output)
                   <= 30000 + Chars(SectionHeader) + Chars(TruncationNotice)
                            + Chars(SectionFooter)

\* A failing run with a region of more than 30000 characters has returned.
C24_Witness ==
    /\ FailedRunReturned
    /\ ExtractAriaSnapshot(raw_output).found
    /\ Chars(ExtractAriaSnapshot(raw_output).snapshot) > 30000

\* A failing run with a region of exactly 30000 characters has returned.
C24_WitnessWhole ==
    /\ FailedRunReturned
    /\ ExtractAriaSnapshot(raw_output).found
    /\ Chars(ExtractAriaSnapshot(raw_output).snapshot) = 30000

\* C25: _extract_aria_snapshot of the output returned by run is the snapshot
\* it gives for the raw output, for every raw output.
C25_Idempotent ==
    aria_pc = "Returned"
        => ExtractAriaSnapshot(run_result.output) = ExtractAriaSnapshot(raw_output)

\* A section was appended to a raw output whose region runs to the end of the
\* output, with no separator after it.
C25_Witness ==
    /\ FailedRunReturned
    /\ ExtractAriaSnapshot(raw_output).found
    /\ run_result.output # raw_output
    /\ raw_output[Len(raw_output)].t # "sep"
    /\ FindTok(raw_output, "sep",
               FindTok(raw_output, "nl", FindTok(raw_output, "marker", 1)) + 1) = 0

\* ------------------------------------------------ claims on the checklist

\* The statuses of the lines of the file, in order.
StatusesOf(lines) == [i \in 1..Len(lines) |-> lines[i].status]

\* C26: the current step is the first pending line that comes right after a
\* done line, and the first pending line overall when there is no such line;
\* for the lines [done] 1, [pending] 2, [pending] 3 it is item 2.
C26_CurrentStep ==
    todo_pc = "Selected" =>
        LET pending == {i \in 1..Len(todo_file) : todo_file[i].status = "pending"}
            right_after == {i \in pending :
                               i > 1 /\ todo_file[i - 1].status = "done"}
        IN  /\ right_after # {} =>
                  /\ current_step = todo_file[FirstOf(right_after)].id
                  /\ \A i \in right_after : current_step <= todo_file[i].id
            /\ (right_after = {} /\ pending # {}) =>
                  current_step = todo_file[FirstOf(pending)].id
            /\ pending = {} => current_step = 0
            /\ StatusesOf(todo_file) = <<"done", "pending", "pending">> =>
                  current_step = 2

\* The step was selected from [done] 1, [pending] 2, [pending] 3.
C26_Witness ==
    /\ todo_pc = "Selected"
    /\ StatusesOf(todo_file) = <<"done", "pending", "pending">>
    /\ current_step = 2

\* The step was selected past an earlier pending line: [pending] 1, [done] 2,
\* [pending] 3.
C26_WitnessSkips ==
    /\ todo_pc = "Selected"
    /\ StatusesOf(todo_file) = <<"pending", "done", "pending">>
    /\ current_step = 3

\* ------------------------------------------------ claims on retry_model

\* The calls of the handler that failed.
FailedCalls == {i \in 1..Len(handler_calls) : handler_calls[i].kind # "response"}

C27_WitnessThird ==
    /\ retry_pc = "Done"
    /\ FailedCalls = 1..2
    /\ retry_outcome.kind = "returned"
    /\ retry_outcome.value.call = 3

\* ------------------------------------------- further claims on the loop

\* C28: whenever the prompt of an attempt k > 1 is about to be built, the
\* history holds exactly k - 1 records and the last one carries a test result
\* that failed; and at every point of a run, test executions <= records of
\* the history <= queries sent <= max_retries, the first two differing by at
\* most one.
C28_LoopInvariant ==
    /\ (pc = "AwaitingPrompt" /\ attempt > 1) =>
          /\ Len(conversation_history) = attempt - 1
          /\ conversation_history[attempt - 1].test_result.present
          /\ ~conversation_history[attempt - 1].test_result.success
    /\ exc # "KeyError"
    /\ Len(test_log) <= Len(conversation_history)
    /\ Len(conversation_history) <= Len(queries)
    /\ Len(queries) <= max_retries
    /\ Len(conversation_history) - Len(test_log) <= 1

\* The prompt of attempt 3 is about to be built, and a record of the history
\* has been waiting for its test result at some earlier point (two tests ran).
C28_Witness ==
    /\ pc = "AwaitingPrompt"
    /\ attempt = 3
    /\ Len(conversation_history) = 2
    /\ Len(test_log) = 2

\* A record has been appended and its test has not yet run.
C28_WitnessPending ==
    /\ pc = "Testing"
    /\ Len(conversation_history) = Len(test_log) + 1
    /\ Len(queries) = max_retries

\* The prompt CodingAgentRunner sends with query i, given the upstream
\* content and the outputs of the tests run so far.
RunnerPrompt(i) ==
    IF i = 1
    THEN InitialPrompt(test_file_path, ConversationSnippet(code_blocks.content))
    ELSE [kind |-> "retry", path |-> "", names |-> i - 1,
          snippet |-> LastChars(test_log[i - 1].output, RetrySnippetLimit),
          text |-> RetryPromptText("Runner")]

\* What the two variants do alike whatever the prompts are: each record holds
\* the whole response of its query and the result of its test, the history is
\* what is returned, an exception leaves with nothing returned, and the
\* transcript is written before the return by CodingAgentRunner and after it
\* for CodingAgentFixRunner.
SameBesidesPrompts ==
    /\ \A i \in DOMAIN conversation_history :
          LET e == conversation_history[i]
          IN  /\ e.user_prompt = queries[i].prompt
              /\ e.messages = queries[i].response
              /\ e.test_result.present =>
                    /\ i <= Len(test_log)
                    /\ e.test_result.success = test_log[i].success
                    /\ e.test_result.output = test_log[i].output
    /\ returned.has => (exc = "none" /\ returned.value = conversation_history)
    /\ pc = "Exited" => (exc # "none" /\ ~returned.has)
    /\ (variant = "Runner" /\ returned.has) => transcript.exists
    /\ (variant = "FixRunner" /\ transcript.exists) => returned.has

\* C29: for the same max_retries, responses and test outcomes the two
\* variants send the same prompts, run the same tests, return the same
\* history and propagate the same exceptions: every query of either variant
\* carries the prompt CodingAgentRunner sends for these inputs, and the rest
\* of the run differs only in who writes the transcript.
C29_VariantsEquivalent ==
    /\ \A i \in DOMAIN queries : queries[i].prompt = RunnerPrompt(i)
    /\ SameBesidesPrompts

\* ------------------------------------------------ claims on the pipeline

\* The position of the first occurrence of an event in the log, 0 for none.
At(event) ==
    LET hits == {i \in 1..Len(pipe_log) : pipe_log[i] = event}
    IN  IF hits = {} THEN 0 ELSE CHOOSE i \in hits : \A j \in hits : i <= j

\* C30: Stage 1 closes its session, then saves the transcript, then extracts
\* and writes the code-blocks file of the run id; Stage 2 starts only after
\* all of that and reads the file of the same run id; when a step of Stage 1
\* raises, Stage 2 is never started and no repair attempt is made.
C30_StagesOrdered ==
    /\ At("s1_transcript_saved") # 0 =>
          (0 < At("s1_session_closed")
             /\ At("s1_session_closed") < At("s1_transcript_saved")
             /\ ConversationPath(run_uuid) \in results_dir)
    /\ At("s1_code_blocks_written") # 0 =>
          (0 < At("s1_transcript_saved")
             /\ At("s1_transcript_saved") < At("s1_code_blocks_written")
             /\ CodeBlocksPath(run_uuid) \in results_dir)
    /\ At("s2_started") # 0 =>
          /\ web_session = "closed"
          /\ 0 < At("s1_code_blocks_written")
          /\ At("s1_code_blocks_written") < At("s2_started")
          /\ pipe_pc \in {"S2Loop", "S2LoopExit", "Completed"} =>
                stage2_read = [kind |-> "code_blocks", id |-> run_uuid]
          /\ pipe_exc.type # "FileNotFoundError"
    /\ At("s2_attempt") # 0 =>
          (0 < At("s2_started") /\ At("s2_started") < At("s2_attempt"))
    /\ repair_attempts > 0 => At("s2_attempt") # 0
    /\ pipe_exc.stage = 1 =>
          /\ At("s2_started") = 0
          /\ repair_attempts = 0
          /\ stage2_read = NoFile
          /\ pipe_pc = "Failed"

\* Stage 2 has made an attempt on the file of this run while the code-blocks
\* file of another run lies in the directory.
C30_Witness ==
    /\ repair_attempts > 0
    /\ stage2_read = CodeBlocksPath(run_uuid)
    /\ \E f \in results_dir : f.kind = "code_blocks" /\ f.id # run_uuid

\* The extraction of Stage 1 raised after the transcript was saved.
C30_WitnessStage1Raises ==
    /\ pipe_pc = "Failed"
    /\ pipe_exc.stage = 1
    /\ At("s1_transcript_saved") # 0

=============================================================================
